---- MODULE Spec2Model ----
(***************************************************************************)
(* State-machine model of the code-intelligence indexer: the Store         *)
(* (db/schema), the Indexer (indexProject, reindexFile, computePageRank)   *)
(* and the file tree they read.                                            *)
(*                                                                         *)
(* db is the committed content of .codex/index.db, what any other Store    *)
(* handle reads.  tx is the content seen by the handle of the running      *)
(* operation: inside a db.transaction() it runs ahead of db until COMMIT,  *)
(* outside one every statement autocommits and tx = db.                    *)
(***************************************************************************)
EXTENDS Integers, Sequences, FiniteSets, Bags, TLC

VARIABLES disk, db, tx, run, lastFull, faults, passed,
          debounceMap, watcher, handle, burst, events,
          pidFile, procs, cli,
          request, result

\* the state of the Watcher: its timers, whether its process lives, whether
\* the Store handle it was started with is open, and the record of the
\* events delivered to it
wvars == <<debounceMap, watcher, handle, burst, events>>

\* the daemon: the content of .codex/codex.pid, the processes alive (by
\* process id: a daemon-worker or some other program), and the last
\* `daemon` command with what it printed
dvars == <<pidFile, procs, cli>>

\* a command or query taken on its own: what it is given and what it
\* answers
qvars == <<request, result>>

vars == <<disk, db, tx, run, lastFull, faults, passed, wvars, dvars, qvars>>

(***************************************************************************)
(* Bounds.                                                                 *)
(***************************************************************************)
\* largest AUTOINCREMENT id handed out for a symbols row
MaxSymId == 4
\* largest AUTOINCREMENT id handed out for a files row
MaxFileId == 2
\* number of file events delivered to the Watcher in one history
MaxEvents == 3
\* the step of the Watcher's clock, in milliseconds
TickMs == 100
\* largest process id the system hands out
MaxPid == 3
\* number of failing Store statements in one history
MaxFaults == 1

NULL == "NULL"
NoFile == "ENOENT"

(***************************************************************************)
(* The file tree.  Two source files in the root directory; each holds one  *)
(* of a few contents or does not exist.                                    *)
(***************************************************************************)
Paths == {"a.ts", "b.ts"}

Contents == {"CA", "CA2", "CB", "CB2"}

\* the contents a path takes in the checked runs
Allowed ==
  [p \in Paths |-> IF p = "a.ts" THEN {"CA", "CA2"} ELSE {"CB", "CB2"}]

(***************************************************************************)
(* Parser.                                                                 *)
(***************************************************************************)
extname(p) ==
  CASE p = "a.ts" -> ".ts"
    [] p = "b.ts" -> ".ts"
    [] p = "c.ts" -> ".ts"
    [] p = "n.md" -> ".md"
    [] p = "venv/v.ts" -> ".ts"
    [] p = "./a.ts" -> ".ts"
    [] OTHER -> ""

EXTENSION_MAP ==
  [e \in {".ts", ".tsx", ".js", ".json"} |->
     CASE e = ".ts" -> "typescript"
       [] e = ".tsx" -> "tsx"
       [] e = ".js" -> "javascript"
       [] e = ".json" -> "json"]

getLanguage(filePath) ==
  IF extname(filePath) \in DOMAIN EXTENSION_MAP
    THEN EXTENSION_MAP[extname(filePath)] ELSE NULL

isSupportedFile(filePath) == getLanguage(filePath) # NULL

\* sha256(content).hex.slice(0, 16): distinct contents get distinct digests
hashFile(content) ==
  CASE content = "CA" -> "3f1a"
    [] content = "CA2" -> "9c4e"
    [] content = "CB" -> "b772"
    [] content = "CB2" -> "05d8"
    [] content = "CS" -> "e1b0"
    [] content = "CB3" -> "6a27"
    [] content = "CC" -> "d94c"
    [] content = "CX" -> "77aa"
    [] content = "CW" -> "c0de"
    [] content = "CL" -> "f00d"

Sym(name, qn, kind, body, exported) ==
  [name |-> name, qualifiedName |-> qn, kind |-> kind, content |-> body,
   exported |-> exported]

\* What the tree walk extracts from each content:
\*  CA : import { bar } from './b';
\*       export function foo(){ helper(); bar(); }
\*       function helper(){ helper(); }
\*  CA2: export class K { m(){ } }
\*  CB : export function bar(){}
\*  CB2: export function bar(){ return 1; }
\*  CS : import { foo } from './a';
\*       export function foo(){}
\*       function helper(){ foo(); }
\*  CB3: import { foo } from './a';
\*       export function bar(){}
\*  CC : import { foo } from './a';
\*       export function baz(){}
\*  CL : export const table = [ ... ];   (a generated table, over 512 KB)
\*  CX : a text on which parser.parse(content) raises
\*  CW : a text whose syntax tree walkNode(tree.rootNode) raises on (nesting
\*       deeper than the call stack)
walkNode(content) ==
  CASE content = "CA" ->
         [symbols |-> << Sym("foo", NULL, "function", "foo(){helper();bar();}", TRUE),
                         Sym("helper", NULL, "function", "helper(){helper();}", FALSE) >>,
          imports |-> << [source |-> "./b", names |-> <<"bar">>] >>,
          calls |-> << [callerSymbol |-> "foo", calledName |-> "helper"],
                       [callerSymbol |-> "foo", calledName |-> "bar"],
                       [callerSymbol |-> "helper", calledName |-> "helper"] >>]
    [] content = "CA2" ->
         [symbols |-> << Sym("K", NULL, "class", "class K{m(){}}", TRUE),
                         Sym("m", "K.m", "method", "m(){}", FALSE) >>,
          imports |-> << >>,
          calls |-> << >>]
    [] content = "CB" ->
         [symbols |-> << Sym("bar", NULL, "function", "bar(){}", TRUE) >>,
          imports |-> << >>,
          calls |-> << >>]
    [] content = "CB2" ->
         [symbols |-> << Sym("bar", NULL, "function", "bar(){return 1;}", TRUE) >>,
          imports |-> << >>,
          calls |-> << >>]
    [] content = "CS" ->
         [symbols |-> << Sym("foo", NULL, "function", "foo(){}", TRUE),
                         Sym("helper", NULL, "function", "helper(){foo();}", FALSE) >>,
          imports |-> << [source |-> "./a", names |-> <<"foo">>] >>,
          calls |-> << [callerSymbol |-> "helper", calledName |-> "foo"] >>]
    [] content = "CB3" ->
         [symbols |-> << Sym("bar", NULL, "function", "bar(){}", TRUE) >>,
          imports |-> << [source |-> "./a", names |-> <<"foo">>] >>,
          calls |-> << >>]
    [] content = "CC" ->
         [symbols |-> << Sym("baz", NULL, "function", "baz(){}", TRUE) >>,
          imports |-> << [source |-> "./a", names |-> <<"foo">>] >>,
          calls |-> << >>]
    [] content = "CL" ->
         [symbols |-> << Sym("table", NULL, "variable", "table=[...]", TRUE) >>,
          imports |-> << >>,
          calls |-> << >>]

EmptyParse == [symbols |-> << >>, imports |-> << >>, calls |-> << >>]

\* parser.parse(content) raises; parseFile catches it
parseThrows(content) == content = "CX"

\* walkNode raises; nothing in parseFile catches it
walkThrows(content) == content = "CW"

\* parseFile lets an exception out
parseFileThrows(filePath, content) ==
  /\ getLanguage(filePath) \notin {NULL, "json", "css", "html"}
  /\ ~parseThrows(content)
  /\ walkThrows(content)

\* parseFile where it returns
parseFile(filePath, content) ==
  IF getLanguage(filePath) = NULL THEN EmptyParse
  ELSE IF getLanguage(filePath) \in {"json", "css", "html"} THEN EmptyParse
  ELSE IF parseThrows(content) THEN EmptyParse
  ELSE walkNode(content)

(***************************************************************************)
(* Resolver.                                                               *)
(***************************************************************************)
\* path.relative(rootDir, path.resolve(fromDir, importSource)) for the
\* specifiers of the contents above; every file lies in the root directory
relOf(fromFile, importSource) ==
  CASE importSource = "./b" -> "b"
    [] importSource = "./a" -> "a"
    [] importSource = "./lib" -> "lib"
    [] importSource = "/lib" -> "../lib"
    [] OTHER -> importSource

\* the import specifiers met, and the first character of each
Specifiers == {"./a", "./b", "./lib", "/lib", "lib", "react"}

firstChar(importSource) ==
  CASE importSource \in {"./a", "./b", "./lib"} -> "."
    [] importSource = "/lib" -> "/"
    [] importSource = "lib" -> "l"
    [] importSource = "react" -> "r"

\* importSource.startsWith('.') || importSource.startsWith('/')
isRelative(importSource) == firstChar(importSource) \in {".", "/"}

existsSync(dsk, p) == p \in DOMAIN dsk /\ dsk[p] # NoFile

\* path.join(rootDir, relPath): the file a relative path leads to, with
\* `.` segments dropped; the tree is keyed by the paths below rootDir
pathJoin(relPath) == IF relPath = "./a.ts" THEN "a.ts" ELSE relPath

\* a file that exists but whose readFileSync raises (no read permission)
Unreadable == "EACCES"

readFileThrows(dsk, p) == dsk[p] = Unreadable

\* the bare path tried before any extension
extensionsBareFirst == << "", ".ts", ".tsx", ".js", ".jsx", ".py", ".rs", ".go" >>

extensions == << ".ts", ".tsx", ".js", ".jsx", ".py", ".rs", ".go", "" >>
indexFiles == << "/index.ts", "/index.tsx", "/index.js", "/index.jsx" >>

RECURSIVE firstExisting(_, _, _, _)
firstExisting(dsk, rel, suffixes, i) ==
  IF i > Len(suffixes) THEN NULL
  ELSE IF existsSync(dsk, rel \o suffixes[i]) THEN rel \o suffixes[i]
  ELSE firstExisting(dsk, rel, suffixes, i + 1)

resolveImportPath(dsk, fromFile, importSource) ==
  IF ~isRelative(importSource) THEN NULL
  ELSE LET rel == relOf(fromFile, importSource)
           direct == firstExisting(dsk, rel, extensions, 1)
       IN IF direct # NULL THEN direct
          ELSE firstExisting(dsk, rel, indexFiles, 1)

(***************************************************************************)
(* Store: schema, triggers and prepared operations.                        *)
(* A store content is a record of the five tables, the FTS projection and  *)
(* the two AUTOINCREMENT sequences (sqlite_sequence, which is transacted   *)
(* like any table).                                                        *)
(***************************************************************************)
EmptyStore ==
  [files |-> {}, symbols |-> {}, edges |-> {}, file_deps |-> {},
   rankings |-> {}, fts |-> EmptyBag, seq_files |-> 0, seq_symbols |-> 0]

FileByPath(d, filePath) == {f \in d.files : f.path = filePath}

SymbolsOfFile(d, fileId) == {s \in d.symbols : s.file_id = fileId}

SymbolIdsOfFile(d, fileId) == {s.id : s \in SymbolsOfFile(d, fileId)}

FtsRow(s) ==
  [rowid |-> s.id, name |-> s.name, qualified_name |-> s.qualified_name,
   content |-> s.content]

\* TRIGGER symbols_ai AFTER INSERT ON symbols
symbols_ai(fts, new) == fts (+) SetToBag({FtsRow(new)})

\* the AFTER DELETE trigger left out: FTS rows are never removed
symbols_ad_missing(fts, old) == fts

\* TRIGGER symbols_ad AFTER DELETE ON symbols
symbols_ad(fts, old) == fts (-) SetToBag({FtsRow(old)})

RECURSIVE FireDeletes(_, _)
FireDeletes(fts, rows) ==
  IF rows = {} THEN fts
  ELSE LET r == CHOOSE r \in rows : TRUE
       IN FireDeletes(symbols_ad(fts, r), rows \ {r})

\* DELETE of symbol rows: the delete trigger fires per row; edges and
\* rankings REFERENCES symbols(id) ON DELETE CASCADE
DeleteSymbols(d, rows) ==
  LET ids == {s.id : s \in rows}
  IN [d EXCEPT
        !.symbols = @ \ rows,
        !.fts = FireDeletes(@, rows),
        !.edges = {e \in @ : e.from_id \notin ids /\ e.to_id \notin ids},
        !.rankings = {r \in @ : r.symbol_id \notin ids}]

\* the cascade of file_deps.to_file left out (foreign keys followed on
\* from_file only)
CascadeFileDepsFromOnly(deps, fileId) == {fd \in deps : fd.from_file # fileId}

\* file_deps.from_file and file_deps.to_file REFERENCES files(id) ON DELETE CASCADE
CascadeFileDeps(deps, fileId) ==
  {fd \in deps : fd.from_file # fileId /\ fd.to_file # fileId}

\* the files row deleted with foreign keys off: nothing cascades
DeleteFileRowNoCascade(d, fileId) ==
  [d EXCEPT !.files = {f \in @ : f.id # fileId}]

\* DELETE FROM files WHERE id = ?  with its ON DELETE CASCADE actions
DeleteFileRow(d, fileId) ==
  LET d1 == DeleteSymbols(d, SymbolsOfFile(d, fileId))
  IN [d1 EXCEPT
        !.files = {f \in @ : f.id # fileId},
        !.file_deps = CascadeFileDeps(@, fileId)]

lineCount(content) == IF content = "CA" THEN 3 ELSE 1

\* the digest comparison left out: every known file counts as changed
getOrCreateFileAlwaysChanged(d, filePath, hash, language, lines) ==
  LET existing == FileByPath(d, filePath)
  IN IF existing # {}
       THEN LET ex == CHOOSE f \in existing : TRUE
            IN [d |-> [d EXCEPT !.files = (@ \ {ex}) \cup
                         {[ex EXCEPT !.content_hash = hash,
                                     !.language = language,
                                     !.line_count = lines]}],
                id |-> ex.id, changed |-> TRUE]
       ELSE [d |-> [d EXCEPT !.files = @ \cup
                      {[id |-> d.seq_files + 1, path |-> filePath,
                        language |-> language, content_hash |-> hash,
                        line_count |-> lines]},
                    !.seq_files = @ + 1],
             id |-> d.seq_files + 1, changed |-> TRUE]

\* getOrCreateFile: [d: the store after the call, id, changed]
getOrCreateFile(d, filePath, hash, language, lines) ==
  LET existing == FileByPath(d, filePath)
  IN IF existing # {}
       THEN LET ex == CHOOSE f \in existing : TRUE
            IN IF ex.content_hash = hash
                 THEN [d |-> d, id |-> ex.id, changed |-> FALSE]
                 ELSE [d |-> [d EXCEPT !.files = (@ \ {ex}) \cup
                                {[ex EXCEPT !.content_hash = hash,
                                            !.language = language,
                                            !.line_count = lines]}],
                       id |-> ex.id, changed |-> TRUE]
       ELSE [d |-> [d EXCEPT !.files = @ \cup
                      {[id |-> d.seq_files + 1, path |-> filePath,
                        language |-> language, content_hash |-> hash,
                        line_count |-> lines]},
                    !.seq_files = @ + 1],
             id |-> d.seq_files + 1, changed |-> TRUE]

\* the four statements of clearFileData, in order
clearRankings(d, fileId) ==
  [d EXCEPT !.rankings = {r \in @ : r.symbol_id \notin SymbolIdsOfFile(d, fileId)}]

clearEdges(d, fileId) ==
  [d EXCEPT !.edges = {e \in @ : /\ e.from_id \notin SymbolIdsOfFile(d, fileId)
                                 /\ e.to_id \notin SymbolIdsOfFile(d, fileId)}]

clearSymbols(d, fileId) == DeleteSymbols(d, SymbolsOfFile(d, fileId))

\* DELETE FROM file_deps WHERE from_file = ? OR to_file = ?
clearFileDepsBothEnds(d, fileId) ==
  [d EXCEPT !.file_deps = {fd \in @ : fd.from_file # fileId /\ fd.to_file # fileId}]

clearFileDeps(d, fileId) ==
  [d EXCEPT !.file_deps = {fd \in @ : fd.from_file # fileId}]

clearFileData(d, fileId) ==
  clearFileDeps(clearSymbols(clearEdges(clearRankings(d, fileId), fileId), fileId), fileId)

\* insertSymbol: the row gets the next AUTOINCREMENT id; the insert trigger
\* adds its FTS row.  The new id is d.seq_symbols + 1.
insertSymbol(d, fileId, sym) ==
  LET row == [id |-> d.seq_symbols + 1, name |-> sym.name,
              qualified_name |-> sym.qualifiedName, kind |-> sym.kind,
              file_id |-> fileId, content |-> sym.content,
              exported |-> sym.exported]
  IN [d EXCEPT !.symbols = @ \cup {row},
               !.fts = symbols_ai(@, row),
               !.seq_symbols = @ + 1]

\* INSERT OR IGNORE INTO edges: the primary key (from_id, to_id, kind)
insertEdge(d, fromId, toId, kind) ==
  [d EXCEPT !.edges = @ \cup {[from_id |-> fromId, to_id |-> toId, kind |-> kind]}]

\* INSERT OR IGNORE INTO file_deps
insertFileDep(d, fromFile, toFile, kind, importName) ==
  [d EXCEPT !.file_deps = @ \cup
     {[from_file |-> fromFile, to_file |-> toFile, kind |-> kind,
       import_name |-> importName]}]

\* the loop left after its first iteration
removeFilesFirstOnly(d, ids) ==
  IF ids = {} THEN d
  ELSE LET id == CHOOSE id \in ids : TRUE
       IN DeleteFileRow(clearFileData(d, id), id)

RECURSIVE removeFiles(_, _)
removeFiles(d, ids) ==
  IF ids = {} THEN d
  ELSE LET id == CHOOSE id \in ids : TRUE
       IN removeFiles(DeleteFileRow(clearFileData(d, id), id), ids \ {id})

\* the test on validPaths inverted: the collected files are the ones removed
removeStaleFilesInverted(d, validPaths) ==
  removeFiles(d, {f.id : f \in {g \in d.files : g.path \in validPaths}})

removeStaleFiles(d, validPaths) ==
  removeFiles(d, {f.id : f \in {g \in d.files : g.path \notin validPaths}})

\* foreign_keys = ON: a row may only be inserted under existing parents
SymbolFkOk(d, fileId) == \E f \in d.files : f.id = fileId

EdgeFkOk(d, fromId, toId) ==
  /\ \E s \in d.symbols : s.id = fromId
  /\ \E s \in d.symbols : s.id = toId

(***************************************************************************)
(* Indexer: the per-file work shared by indexProject and reindexFile.      *)
(***************************************************************************)
EmptyMap == [k \in {} |-> 0]

\* Map.set(k, v)
mapSet(m, k, v) == [x \in (DOMAIN m) \cup {k} |-> IF x = k THEN v ELSE m[x]]

\* Map.get(k): 0 stands for undefined (ids start at 1, and the code tests
\* the result for truthiness)
mapGet(m, k) == IF k \in DOMAIN m THEN m[k] ELSE 0

RECURSIVE join(_, _)
\* names.join(',')
join(names, i) ==
  IF i > Len(names) THEN ""
  ELSE IF i = Len(names) THEN names[i]
  ELSE names[i] \o "," \o join(names, i + 1)

importNameOf(imp) == IF Len(imp.names) > 0 THEN join(imp.names, 1) ELSE "*"

\* one iteration of `for (const sym of parsed.symbols)`; st = [d, symbolMap]
symbolStep(st, fileId, sym) ==
  LET id == st.d.seq_symbols + 1
      m1 == mapSet(st.symbolMap, sym.name, id)
  IN [d |-> insertSymbol(st.d, fileId, sym),
      symbolMap |-> IF sym.qualifiedName # NULL
                      THEN mapSet(m1, sym.qualifiedName, id) ELSE m1]

\* one iteration of `for (const imp of parsed.imports)`: the FileDep is
\* inserted only when the resolved path already has a files row
importStep(d, dsk, relPath, fileId, imp) ==
  LET resolved == resolveImportPath(dsk, relPath, imp.source)
      toFile == IF resolved = NULL THEN {} ELSE FileByPath(d, resolved)
  IN IF toFile # {}
       THEN insertFileDep(d, fileId, (CHOOSE f \in toFile : TRUE).id, "import",
                          importNameOf(imp))
       ELSE d

\* the test callerId !== calledId left out
callMakesEdgeNoGuard(symbolMap, call) ==
  /\ mapGet(symbolMap, call.callerSymbol) # 0
  /\ mapGet(symbolMap, call.calledName) # 0

\* callerId && calledId && callerId !== calledId
callMakesEdge(symbolMap, call) ==
  /\ mapGet(symbolMap, call.callerSymbol) # 0
  /\ mapGet(symbolMap, call.calledName) # 0
  /\ mapGet(symbolMap, call.callerSymbol) # mapGet(symbolMap, call.calledName)

\* one iteration of `for (const call of parsed.calls)`
callStep(d, symbolMap, call) ==
  IF callMakesEdge(symbolMap, call)
    THEN insertEdge(d, mapGet(symbolMap, call.callerSymbol),
                    mapGet(symbolMap, call.calledName), "calls")
    ELSE d

RECURSIVE insertSymbols(_, _, _, _)
insertSymbols(st, fileId, syms, i) ==
  IF i > Len(syms) THEN st
  ELSE insertSymbols(symbolStep(st, fileId, syms[i]), fileId, syms, i + 1)

RECURSIVE insertImports(_, _, _, _, _, _)
insertImports(d, dsk, relPath, fileId, imps, i) ==
  IF i > Len(imps) THEN d
  ELSE insertImports(importStep(d, dsk, relPath, fileId, imps[i]), dsk, relPath,
                     fileId, imps, i + 1)

RECURSIVE insertCalls(_, _, _, _)
insertCalls(d, symbolMap, calls, i) ==
  IF i > Len(calls) THEN d
  ELSE insertCalls(callStep(d, symbolMap, calls[i]), symbolMap, calls, i + 1)

RECURSIVE resolvedImportsOf(_, _, _, _)
\* the resolvedImports list of a changed file
resolvedImportsOf(dsk, relPath, imps, i) ==
  IF i > Len(imps) THEN << >>
  ELSE LET resolved == resolveImportPath(dsk, relPath, imps[i].source)
           rest == resolvedImportsOf(dsk, relPath, imps, i + 1)
       IN IF resolved # NULL
            THEN << [resolved |-> resolved, names |-> imps[i].names] >> \o rest
            ELSE rest

\* removeFile
removeFile(d, filePath) ==
  LET file == FileByPath(d, filePath)
  IN IF file = {} THEN d
     ELSE LET id == (CHOOSE f \in file : TRUE).id
          IN DeleteFileRow(clearFileData(d, id), id)

\* the early return left out: an unchanged file is cleared and rebuilt
rebuildsUnchanged(fileRecord) == FALSE

\* if (!fileRecord.changed) { ... return; } in reindexFile
returnsUnchanged(fileRecord) == ~fileRecord.changed

\* reindexFile run from start to end with no statement failing: the store
\* it leaves
reindexFile(d, dsk, relPath) ==
  IF ~existsSync(dsk, pathJoin(relPath)) THEN removeFile(d, relPath)
  ELSE IF readFileThrows(dsk, pathJoin(relPath)) THEN d
  ELSE LET content == dsk[pathJoin(relPath)]
           fileRecord == getOrCreateFile(d, relPath, hashFile(content),
                                         getLanguage(relPath), lineCount(content))
           parsed == parseFile(relPath, content)
           st == insertSymbols([d |-> clearFileData(fileRecord.d, fileRecord.id),
                                symbolMap |-> EmptyMap],
                               fileRecord.id, parsed.symbols, 1)
       IN IF returnsUnchanged(fileRecord) THEN fileRecord.d
          ELSE insertCalls(insertImports(st.d, dsk, relPath, fileRecord.id,
                                         parsed.imports, 1),
                           st.symbolMap, parsed.calls, 1)

(***************************************************************************)
(* The running operation.  run.pc names the statement about to execute;    *)
(* "returned" and "threw" are the two ways a call ends, and run.pre keeps  *)
(* the committed store as it was when the call began.                      *)
(***************************************************************************)
Idle == [op |-> "idle", pc |-> "idle", at |-> "none"]

\* the Watcher's paths: the two source files and a file of a type the
\* parser has no grammar for
WatchPaths == Paths \cup {"n.md"}

\* setTimeout(..., 200): the debounce delay in milliseconds
DEBOUNCE_MS == 200

\* the record kept per path of the events delivered: the time since the
\* last one (capped at the debounce delay), the reindexFile calls the
\* Watcher made since the burst began, and whether one came after the last
\* event
NoBurst == [since |-> DEBOUNCE_MS, calls |-> 0, last |-> FALSE]

Ended == run.pc \in {"returned", "threw"}

\* no command or query is being looked at
NoCall == [fn |-> "none"]

\* no call in progress, the Watcher just started on its open handle, no
\* daemon
NothingRunning ==
  /\ run = Idle
  /\ lastFull = FALSE
  /\ faults = 0
  /\ passed = {}
  /\ debounceMap = EmptyMap
  /\ watcher = "running"
  /\ handle = "open"
  /\ burst = [p \in WatchPaths |-> NoBurst]
  /\ events = 0
  /\ pidFile = NoFile
  /\ procs = EmptyMap
  /\ cli = [cmd |-> "none", out |-> "", stale |-> FALSE]

\* the state after construction of everything but request and result
StartState ==
  /\ disk = [p \in Paths |-> NoFile]
  /\ db = EmptyStore
  /\ tx = EmptyStore
  /\ NothingRunning


Init ==
  /\ StartState
  /\ request = NoCall
  /\ result = NoCall

\* everything but request and result stays as it is
Quiet == UNCHANGED <<disk, db, tx, run, lastFull, faults, passed, wvars, dvars>>

\* the tree changes between operations: a file is written, edited or deleted
EditDisk(p, c) ==
  /\ UNCHANGED <<faults, passed, wvars, dvars, qvars>>
  /\ run = Idle
  /\ c \in Allowed[p] \cup {NoFile}
  /\ c # disk[p]
  /\ disk' = [disk EXCEPT ![p] = c]
  /\ lastFull' = FALSE
  /\ UNCHANGED <<db, tx, run>>

\* the call is over: control is back with the caller
Return ==
  /\ UNCHANGED <<faults, passed, wvars, dvars, qvars>>
  /\ Ended
  /\ run' = Idle
  /\ lastFull' = (run.op = "index" /\ run.pc = "returned")
  /\ UNCHANGED <<disk, db, tx>>

(***************************************************************************)
(* reindexFile.  No statement of it runs inside a transaction, so each     *)
(* one commits on its own and is visible to every other handle at once.    *)
(***************************************************************************)
\* a statement outside any transaction
Autocommit(newd) == db' = newd /\ tx' = newd

\* skip the loops that have run out: the statement after (pc, i)
RECURSIVE nextStatement(_, _, _)
nextStatement(pc, i, parsed) ==
  CASE pc = "symbols" ->
         IF i <= Len(parsed.symbols) THEN [pc |-> pc, i |-> i]
         ELSE nextStatement("imports", 1, parsed)
    [] pc = "imports" ->
         IF i <= Len(parsed.imports) THEN [pc |-> pc, i |-> i]
         ELSE nextStatement("calls", 1, parsed)
    [] pc = "calls" ->
         IF i <= Len(parsed.calls) THEN [pc |-> pc, i |-> i]
         ELSE [pc |-> "returned", i |-> 0]

ReindexRun(pc, relPath, fileId, content, then, by) ==
  [op |-> "reindex", pc |-> pc, relPath |-> relPath, pre |-> db,
   fileId |-> fileId, content |-> content, then |-> then,
   symbolMap |-> EmptyMap, i |-> 0, at |-> "none", by |-> by]

\* reindexFile up to and including getOrCreateFile (or the lookup of
\* removeFile when the file is gone), reading the tree dsk; by names the
\* caller: a direct call, the Watcher's timer or its unlink handler
ReindexBegin(dsk, relPath, by) ==
  /\ run = Idle
  /\ lastFull' = FALSE
  /\ IF ~existsSync(dsk, pathJoin(relPath))
       THEN LET file == FileByPath(db, relPath)
            IN /\ UNCHANGED <<db, tx>>
               /\ run' = IF file = {}
                           THEN ReindexRun("returned", relPath, 0, NoFile, "none", by)
                           ELSE ReindexRun("clear_rankings", relPath,
                                           (CHOOSE f \in file : TRUE).id, NoFile,
                                           "delete_file", by)
       ELSE IF readFileThrows(dsk, pathJoin(relPath))
       THEN /\ UNCHANGED <<db, tx>>
            /\ run' = ReindexRun("returned", relPath, 0, Unreadable, "none", by)
       ELSE LET content == dsk[pathJoin(relPath)]
                fileRecord == getOrCreateFile(db, relPath, hashFile(content),
                                              getLanguage(relPath), lineCount(content))
            IN /\ fileRecord.d.seq_files <= MaxFileId
               /\ Autocommit(fileRecord.d)
               /\ run' = IF returnsUnchanged(fileRecord)
                           THEN ReindexRun("returned", relPath, fileRecord.id,
                                           content, "none", by)
                           ELSE ReindexRun("clear_rankings", relPath, fileRecord.id,
                                           content, "insert", by)

\* reindexFile called by the CLI or the tool protocol
ReindexStart(relPath) ==
  /\ UNCHANGED <<disk, faults, passed, wvars, dvars, qvars>>
  /\ ReindexBegin(disk, relPath, "call")

\* the four statements of clearFileData, one at a time
ReindexClear ==
  /\ UNCHANGED <<faults, passed, wvars, dvars, qvars>>
  /\ run.op = "reindex"
  /\ run.pc \in {"clear_rankings", "clear_edges", "clear_symbols", "clear_deps"}
  /\ UNCHANGED <<disk, lastFull>>
  /\ CASE run.pc = "clear_rankings" ->
            /\ Autocommit(clearRankings(db, run.fileId))
            /\ run' = [run EXCEPT !.pc = "clear_edges"]
       [] run.pc = "clear_edges" ->
            /\ Autocommit(clearEdges(db, run.fileId))
            /\ run' = [run EXCEPT !.pc = "clear_symbols"]
       [] run.pc = "clear_symbols" ->
            /\ Autocommit(clearSymbols(db, run.fileId))
            /\ run' = [run EXCEPT !.pc = "clear_deps"]
       [] run.pc = "clear_deps" ->
            /\ Autocommit(clearFileDeps(db, run.fileId))
            /\ run' = IF run.then = "delete_file"
                        THEN [run EXCEPT !.pc = "delete_file"]
                        ELSE IF parseFileThrows(run.relPath, run.content)
                        THEN [run EXCEPT !.pc = "threw", !.at = "parse"]
                        ELSE LET n == nextStatement("symbols", 1,
                                        parseFile(run.relPath, run.content))
                             IN [run EXCEPT !.pc = n.pc, !.i = n.i]

\* removeFile: DELETE FROM files WHERE id = ?
ReindexDeleteFile ==
  /\ UNCHANGED <<faults, passed, wvars, dvars, qvars>>
  /\ run.op = "reindex"
  /\ run.pc = "delete_file"
  /\ Autocommit(DeleteFileRow(db, run.fileId))
  /\ run' = [run EXCEPT !.pc = "returned"]
  /\ UNCHANGED <<disk, lastFull>>

ReindexSymbol ==
  /\ UNCHANGED <<faults, passed, wvars, dvars, qvars>>
  /\ run.op = "reindex"
  /\ run.pc = "symbols"
  /\ db.seq_symbols < MaxSymId
  /\ SymbolFkOk(db, run.fileId)
  /\ LET parsed == parseFile(run.relPath, run.content)
         st == symbolStep([d |-> db, symbolMap |-> run.symbolMap], run.fileId,
                          parsed.symbols[run.i])
         n == nextStatement("symbols", run.i + 1, parsed)
     IN /\ Autocommit(st.d)
        /\ run' = [run EXCEPT !.pc = n.pc, !.i = n.i, !.symbolMap = st.symbolMap]
  /\ UNCHANGED <<disk, lastFull>>

ReindexImport ==
  /\ UNCHANGED <<faults, passed, wvars, dvars, qvars>>
  /\ run.op = "reindex"
  /\ run.pc = "imports"
  /\ LET parsed == parseFile(run.relPath, run.content)
         n == nextStatement("imports", run.i + 1, parsed)
     IN /\ Autocommit(importStep(db, disk, run.relPath, run.fileId,
                                 parsed.imports[run.i]))
        /\ run' = [run EXCEPT !.pc = n.pc, !.i = n.i]
  /\ UNCHANGED <<disk, lastFull>>

ReindexCall ==
  /\ UNCHANGED <<faults, passed, wvars, dvars, qvars>>
  /\ run.op = "reindex"
  /\ run.pc = "calls"
  /\ LET parsed == parseFile(run.relPath, run.content)
         n == nextStatement("calls", run.i + 1, parsed)
     IN /\ Autocommit(callStep(db, run.symbolMap, parsed.calls[run.i]))
        /\ run' = [run EXCEPT !.pc = n.pc, !.i = n.i]
  /\ UNCHANGED <<disk, lastFull>>

\* the statement about to run fails (SQLITE_BUSY, SQLITE_FULL, an I/O
\* error): the exception leaves reindexFile; what was committed stays
ReindexThrow ==
  /\ faults < MaxFaults
  /\ faults' = faults + 1
  /\ UNCHANGED <<passed, wvars, dvars, qvars>>
  /\ run.op = "reindex"
  /\ ~Ended
  /\ run' = [run EXCEPT !.pc = "threw", !.at = run.pc]
  /\ UNCHANGED <<disk, db, tx, lastFull>>

(***************************************************************************)
(* indexProject and computePageRank.                                       *)
(***************************************************************************)
SUPPORTED_EXTENSIONS == {".ts", ".tsx", ".js", ".jsx", ".json"}

SKIP_DIRS ==
  {"node_modules", ".git", ".hg", ".svn", "dist", "build", "out", ".next", ".nuxt",
   "__pycache__", ".pytest_cache", "target", "vendor", ".codex", ".claude",
   "coverage", ".vscode", ".idea", "venv", ".venv", ".env", ".tox",
   "bower_components", ".cache", ".parcel-cache", "tmp", "temp", ".turbo",
   ".vercel", ".netlify"}

\* const MAX_FILE_SIZE = 512 * 1024
MAX_FILE_SIZE == 524288

\* fs.statSync(fullPath).size, in bytes
statSize(content) == IF content = "CL" THEN 600000 ELSE 64

\* the directories a path leads through, outermost first
dirSegments(p) == IF p = "venv/v.ts" THEN << "venv" >> ELSE << >>

\* name.startsWith('.') for the directory names met
dotPrefixed(name) == name \in {".git", ".hg", ".svn", ".next", ".nuxt", ".pytest_cache",
                               ".codex", ".claude", ".vscode", ".idea", ".venv", ".env",
                               ".tox", ".cache", ".parcel-cache", ".turbo", ".vercel",
                               ".netlify", ".github"}

\* walk(dir) does not descend into the directory
prunedDir(name) == dotPrefixed(name) \/ name \in SKIP_DIRS

\* collectFiles: the set of files the walk admits
collectFiles(dsk) ==
  {p \in DOMAIN dsk :
     /\ dsk[p] # NoFile
     /\ \A i \in DOMAIN dirSegments(p) : ~prunedDir(dirSegments(p)[i])
     /\ extname(p) \in SUPPORTED_EXTENSIONS
     /\ statSize(dsk[p]) <= MAX_FILE_SIZE}

\* the orders in which readdirSync may report them
Orders(S) ==
  {f \in [1..Cardinality(S) -> S] : \A i, j \in 1..Cardinality(S) : f[i] = f[j] => i = j}

\* the per-file loop with no transaction around it
IndexNoTransaction == FALSE

\* const transaction = db.transaction(() => { ... }); transaction();
IndexInTransaction == TRUE

\* the committed store after a statement: inside a transaction other
\* handles keep seeing the store as it was at BEGIN
Publish(inTx, committed, working) == IF inTx THEN committed ELSE working

RECURSIVE existingSymbolMap(_, _)
\* the symbolMap of an unchanged file: its exported rows, in rowid order
existingSymbolMap(rows, m) ==
  IF rows = {} THEN m
  ELSE LET s == CHOOSE r \in rows : \A o \in rows : r.id <= o.id
           m1 == IF s.exported THEN mapSet(m, s.name, s.id) ELSE m
           m2 == IF s.exported /\ s.qualified_name # NULL
                   THEN mapSet(m1, s.qualified_name, s.id) ELSE m1
       IN existingSymbolMap(rows \ {s}, m2)

Range(f) == {f[x] : x \in DOMAIN f}

RECURSIVE countEdges(_, _, _)
countEdges(symbolMap, calls, i) ==
  IF i > Len(calls) THEN 0
  ELSE (IF callMakesEdge(symbolMap, calls[i]) THEN 1 ELSE 0)
       + countEdges(symbolMap, calls, i + 1)

\* the body of `for (const relPath of files)` for one file, on store d:
\* [d, read, changed, symbolMap, resolvedImports, symbols, edges]; read is
\* FALSE when readFileSync raised and the body was left by `continue`
indexOneFile(d, dsk, relPath) ==
  LET content == dsk[relPath]
      fileRecord == getOrCreateFile(d, relPath, hashFile(content),
                                    getLanguage(relPath), lineCount(content))
  IN IF readFileThrows(dsk, relPath)
       THEN [d |-> d, read |-> FALSE, changed |-> FALSE, symbolMap |-> EmptyMap,
             resolvedImports |-> << >>, symbols |-> 0, edges |-> 0]
     ELSE IF ~fileRecord.changed
       THEN [d |-> fileRecord.d, read |-> TRUE, changed |-> FALSE,
             symbolMap |-> existingSymbolMap(SymbolsOfFile(d, fileRecord.id), EmptyMap),
             resolvedImports |-> << >>, symbols |-> 0, edges |-> 0]
       ELSE LET parsed == parseFile(relPath, content)
                st == insertSymbols([d |-> clearFileData(fileRecord.d, fileRecord.id),
                                     symbolMap |-> EmptyMap],
                                    fileRecord.id, parsed.symbols, 1)
                d2 == insertImports(st.d, dsk, relPath, fileRecord.id, parsed.imports, 1)
            IN [d |-> insertCalls(d2, st.symbolMap, parsed.calls, 1),
                read |-> TRUE, changed |-> TRUE,
                symbolMap |-> st.symbolMap,
                resolvedImports |-> resolvedImportsOf(dsk, relPath, parsed.imports, 1),
                symbols |-> Len(parsed.symbols),
                edges |-> countEdges(st.symbolMap, parsed.calls, 1)]

\* the references edges of the cross-file pass
crossFileEdges(fileImportMap, fileSymbolMap) ==
  {[from_id |-> srcId, to_id |-> fileSymbolMap[imp.resolved][importedName],
    kind |-> "references"] :
     <<filePath, imp, importedName, srcId>> \in
       {q \in UNION {UNION {UNION {
              {<<fp, im, nm, sid>> : sid \in Range(fileSymbolMap[fp])}
              : nm \in Range(im.names)}
              : im \in Range(fileImportMap[fp])}
              : fp \in (DOMAIN fileImportMap) \cap (DOMAIN fileSymbolMap)} :
          /\ q[2].resolved \in DOMAIN fileSymbolMap
          /\ mapGet(fileSymbolMap[q[2].resolved], q[3]) # 0
          /\ q[4] # mapGet(fileSymbolMap[q[2].resolved], q[3])}}

\* rows written only for symbols that have an edge
rankingRowsConnectedOnly(d) ==
  {[symbol_id |-> s.id,
    in_degree |-> Cardinality({e \in d.edges : e.to_id = s.id}),
    out_degree |-> Cardinality({e \in d.edges : e.from_id = s.id})] :
     s \in {t \in d.symbols : \E e \in d.edges : e.from_id = t.id \/ e.to_id = t.id}}

\* in- and out-degree as computePageRank counts them: one per edges row
rankingRows(d) ==
  {[symbol_id |-> s.id,
    in_degree |-> Cardinality({e \in d.edges : e.to_id = s.id}),
    out_degree |-> Cardinality({e \in d.edges : e.from_id = s.id})] : s \in d.symbols}

\* only the files that could be read are kept from pruning
validPathsReadable(dsk, files) == {p \in Range(files) : ~readFileThrows(dsk, p)}

\* const validPaths = new Set(files): every collected file, read or not
validPathsOf(dsk, files) == Range(files)

RECURSIVE perFilePass(_, _, _, _)
\* the loop `for (const relPath of files)` from file i on;
\* st = [d, fileSymbolMap, fileImportMap]
perFilePass(st, dsk, files, i) ==
  IF i > Len(files) THEN st
  ELSE LET r == indexOneFile(st.d, dsk, files[i])
       IN perFilePass(
            [d |-> r.d,
             fileSymbolMap |-> IF r.read
                                 THEN mapSet(st.fileSymbolMap, files[i], r.symbolMap)
                                 ELSE st.fileSymbolMap,
             fileImportMap |-> IF r.changed
                                 THEN mapSet(st.fileImportMap, files[i], r.resolvedImports)
                                 ELSE st.fileImportMap],
            dsk, files, i + 1)

\* computePageRank: the store it leaves
computePageRank(d) ==
  IF d.symbols = {} THEN d
  ELSE [d EXCEPT !.rankings = rankingRows(d)]

\* indexProject run from start to end with no statement failing, over the
\* files in the order collected: the store it leaves
indexProject(d, dsk, files) ==
  LET st == perFilePass([d |-> d, fileSymbolMap |-> [q \in {} |-> EmptyMap],
                         fileImportMap |-> [q \in {} |-> << >>]], dsk, files, 1)
      d1 == removeStaleFiles(st.d, validPathsOf(dsk, files))
      d2 == [d1 EXCEPT !.edges = @ \cup crossFileEdges(st.fileImportMap, st.fileSymbolMap)]
  IN computePageRank(d2)

IndexBegin ==
  /\ UNCHANGED <<faults, passed, wvars, dvars, qvars>>
  /\ run = Idle
  /\ \E files \in Orders(collectFiles(disk)) :
       run' = [op |-> "index", pc |-> IF Len(files) = 0 THEN "stale" ELSE "file",
               pre |-> db, files |-> files, i |-> 1,
               validPaths |-> validPathsOf(disk, files),
               fileSymbolMap |-> [q \in {} |-> EmptyMap],
               fileImportMap |-> [q \in {} |-> << >>],
               indexedFiles |-> 0, skippedFiles |-> 0,
               totalSymbols |-> 0, totalEdges |-> 0,
               unchanged |-> {}, repeat |-> lastFull, at |-> "none"]
  /\ lastFull' = FALSE
  /\ UNCHANGED <<disk, db, tx>>

\* parseFile raises in the body for relPath: the file is read, its digest
\* is new and the walk of its syntax tree raises
indexFileThrows(d, dsk, relPath) ==
  /\ ~readFileThrows(dsk, relPath)
  /\ getOrCreateFile(d, relPath, hashFile(dsk[relPath]), getLanguage(relPath),
                     lineCount(dsk[relPath])).changed
  /\ parseFileThrows(relPath, dsk[relPath])

IndexFile ==
  /\ UNCHANGED <<faults, passed, wvars, dvars, qvars>>
  /\ run.op = "index"
  /\ run.pc = "file"
  /\ ~indexFileThrows(tx, disk, run.files[run.i])
  /\ LET relPath == run.files[run.i]
         r == indexOneFile(tx, disk, relPath)
     IN /\ r.d.seq_symbols <= MaxSymId
        /\ r.d.seq_files <= MaxFileId
        /\ tx' = r.d
        /\ db' = Publish(IndexInTransaction, db, r.d)
        /\ run' = [run EXCEPT
             !.pc = IF run.i = Len(run.files) THEN "stale" ELSE "file",
             !.i = @ + 1,
             !.fileSymbolMap = IF r.read THEN mapSet(@, relPath, r.symbolMap) ELSE @,
             !.fileImportMap = IF r.changed THEN mapSet(@, relPath, r.resolvedImports)
                               ELSE @,
             !.indexedFiles = IF r.changed THEN @ + 1 ELSE @,
             !.skippedFiles = IF r.changed THEN @ ELSE @ + 1,
             !.totalSymbols = @ + r.symbols,
             !.totalEdges = @ + r.edges,
             !.unchanged = IF r.changed \/ ~r.read THEN @ ELSE @ \cup {relPath}]
  /\ UNCHANGED <<disk, lastFull>>

\* parseFile raises inside the transaction function: better-sqlite3 rolls
\* the transaction back and the exception leaves indexProject
IndexFileThrow ==
  /\ UNCHANGED <<faults, passed, wvars, dvars, qvars>>
  /\ run.op = "index"
  /\ run.pc = "file"
  /\ indexFileThrows(tx, disk, run.files[run.i])
  /\ tx' = db
  /\ run' = [run EXCEPT !.pc = "threw", !.at = "parse"]
  /\ UNCHANGED <<disk, db, lastFull>>

IndexStale ==
  /\ UNCHANGED <<faults, passed, wvars, dvars, qvars>>
  /\ run.op = "index"
  /\ run.pc = "stale"
  /\ tx' = removeStaleFiles(tx, run.validPaths)
  /\ db' = Publish(IndexInTransaction, db, tx')
  /\ run' = [run EXCEPT !.pc = "cross"]
  /\ UNCHANGED <<disk, lastFull>>

IndexCross ==
  /\ UNCHANGED <<faults, passed, wvars, dvars, qvars>>
  /\ run.op = "index"
  /\ run.pc = "cross"
  /\ LET new == crossFileEdges(run.fileImportMap, run.fileSymbolMap)
     IN /\ \A e \in new : EdgeFkOk(tx, e.from_id, e.to_id)
        /\ tx' = [tx EXCEPT !.edges = @ \cup new]
        /\ run' = [run EXCEPT !.pc = "commit", !.totalEdges = @ + Cardinality(new)]
  /\ db' = Publish(IndexInTransaction, db, tx')
  /\ UNCHANGED <<disk, lastFull>>

\* COMMIT, then the head of computePageRank: nothing is written when the
\* symbols table is empty
IndexCommit ==
  /\ UNCHANGED <<faults, passed, wvars, dvars, qvars>>
  /\ run.op = "index"
  /\ run.pc = "commit"
  /\ db' = tx
  /\ run' = [run EXCEPT !.pc = IF tx.symbols = {} THEN "returned" ELSE "pagerank_delete"]
  /\ UNCHANGED <<disk, tx, lastFull>>

\* db.prepare('DELETE FROM rankings').run(), outside writeRankings
PageRankDelete ==
  /\ UNCHANGED <<faults, passed, wvars, dvars, qvars>>
  /\ run.op = "index"
  /\ run.pc = "pagerank_delete"
  /\ Autocommit([db EXCEPT !.rankings = {}])
  /\ run' = [run EXCEPT !.pc = "pagerank_write"]
  /\ UNCHANGED <<disk, lastFull>>

\* writeRankings(): one transaction inserting a row per symbol
PageRankWrite ==
  /\ UNCHANGED <<faults, wvars, dvars, qvars>>
  /\ passed' = {s.id : s \in db.symbols}
  /\ run.op = "index"
  /\ run.pc = "pagerank_write"
  /\ Autocommit([db EXCEPT !.rankings = @ \cup rankingRows(db)])
  /\ run' = [run EXCEPT !.pc = "returned"]
  /\ UNCHANGED <<disk, lastFull>>

\* the statement about to run fails: an open transaction is rolled back,
\* statements already committed stay
IndexThrow ==
  /\ faults < MaxFaults
  /\ faults' = faults + 1
  /\ UNCHANGED <<passed, wvars, dvars, qvars>>
  /\ run.op = "index"
  /\ ~Ended
  /\ tx' = db
  /\ run' = [run EXCEPT !.pc = "threw", !.at = run.pc]
  /\ UNCHANGED <<disk, db, lastFull>>

\* every step in which no statement fails
NoFaultNext ==
  \/ \E p \in Paths : \E c \in Contents \cup {NoFile} : EditDisk(p, c)
  \/ IndexBegin
  \/ IndexFile
  \/ IndexStale
  \/ IndexCross
  \/ IndexCommit
  \/ PageRankDelete
  \/ PageRankWrite
  \/ \E p \in Paths : ReindexStart(p)
  \/ ReindexClear
  \/ ReindexDeleteFile
  \/ ReindexSymbol
  \/ ReindexImport
  \/ ReindexCall
  \/ Return

Next ==
  \/ NoFaultNext
  \/ IndexThrow
  \/ ReindexThrow

\* the operations with no failing statement
SpecNoFault == Init /\ [][NoFaultNext]_vars

\* the operations, with at most MaxFaults failing Store statements
Spec == Init /\ [][Next]_vars

\* what becomes of a file other than an edit to one of its usual contents:
\* a text the parser fails on, or the loss of the permission to read it
Spoilt == [p \in Paths |-> IF p = "b.ts" THEN {"CX", "CW"} ELSE {Unreadable}]

SpoilFile(p, c) ==
  /\ UNCHANGED <<faults, passed, wvars, dvars, qvars>>
  /\ run = Idle
  /\ c \in Spoilt[p]
  /\ c # disk[p]
  /\ c = Unreadable => disk[p] # NoFile
  /\ disk' = [disk EXCEPT ![p] = c]
  /\ lastFull' = FALSE
  /\ UNCHANGED <<db, tx, run>>

BadFilesNext ==
  \/ NoFaultNext
  \/ IndexFileThrow
  \/ \E p \in Paths : \E c \in Spoilt[p] : SpoilFile(p, c)

\* the operations on a tree some of whose files cannot be parsed or read
SpecBadFiles == Init /\ [][BadFilesNext]_vars

(***************************************************************************)
(* reindexFile as the reindex_file tool and `post-edit` call it: with the  *)
(* path the caller hands over, taken as it is.  The tree holds a source    *)
(* file, a file of a type the parser has no grammar for and a source file  *)
(* in a directory the Collector prunes; the source file may grow past the  *)
(* Collector's size limit.                                                 *)
(***************************************************************************)
ToolTree == {"a.ts", "n.md", "venv/v.ts"}

\* the contents each file of the tree takes
ToolContents ==
  [p \in ToolTree |-> IF p = "a.ts" THEN {"CA", "CL"} ELSE {"CB"}]

\* the paths handed to reindexFile: (args as any).file, or the <file>
\* argument of post-edit when it is not absolute
ToolArgs == ToolTree \cup {"./a.ts"}

InitTool ==
  /\ disk = [p \in ToolTree |-> NoFile]
  /\ db = EmptyStore
  /\ tx = EmptyStore
  /\ NothingRunning
  /\ request = NoCall
  /\ result = NoCall

\* a file of the tree is written, edited or deleted between operations
WriteFile(p, c) ==
  /\ UNCHANGED <<faults, passed, wvars, dvars, qvars>>
  /\ run = Idle
  /\ c \in ToolContents[p] \cup {NoFile}
  /\ c # disk[p]
  /\ disk' = [disk EXCEPT ![p] = c]
  /\ lastFull' = FALSE
  /\ UNCHANGED <<db, tx, run>>

ToolNext ==
  \/ \E p \in ToolTree : \E c \in ToolContents[p] \cup {NoFile} : WriteFile(p, c)
  \/ IndexBegin
  \/ IndexFile
  \/ IndexStale
  \/ IndexCross
  \/ IndexCommit
  \/ PageRankDelete
  \/ PageRankWrite
  \/ \E relPath \in ToolArgs : ReindexStart(relPath)
  \/ ReindexClear
  \/ ReindexDeleteFile
  \/ ReindexSymbol
  \/ ReindexImport
  \/ ReindexCall
  \/ Return

SpecTool == InitTool /\ [][ToolNext]_vars

(***************************************************************************)
(* Watcher (startWatcher).  The process is single-threaded: an event        *)
(* handler or a timer callback runs when no other call is running, and a    *)
(* timer that is due runs before the next event is delivered.  reindexFile  *)
(* is synchronous, so the clock is read as standing still while it runs.    *)
(***************************************************************************)
Min(a, b) == IF a < b THEN a ELSE b

\* no setTimeout callback is due
NoTimerDue == \A p \in DOMAIN debounceMap : debounceMap[p] > 0

\* room in the id sequences for the timers pending and one more: every
\* timer callback may insert a files row and the symbols of one file
MaxSymbolsPerFile ==
  CHOOSE n \in 0..MaxSymId :
    /\ \A c \in Contents : Len(walkNode(c).symbols) <= n
    /\ \E c \in Contents : Len(walkNode(c).symbols) = n

RoomFor(timers) ==
  /\ db.seq_symbols + MaxSymbolsPerFile * timers <= MaxSymId
  /\ db.seq_files + timers <= MaxFileId

\* an event is delivered on path p
burstEvent(b) ==
  IF b.since < DEBOUNCE_MS
    THEN [b EXCEPT !.since = 0, !.last = FALSE]
    ELSE [since |-> 0, calls |-> 0, last |-> FALSE]

\* the Watcher calls reindexFile for path p
burstCall(b) == [b EXCEPT !.calls = Min(@ + 1, 2), !.last = TRUE]

\* the try/catch around reindexFile left out
rethrowsReindexError == FALSE

\* try { reindexFile(...) } catch (err) { ... } in both callbacks
catchesReindexError == TRUE

\* reindexFile(rootDir, relPath, db) called by a Watcher callback: on a
\* closed handle its first statement throws
callbackReindex(dsk, relPath, by) ==
  IF handle = "open"
    THEN ReindexBegin(dsk, relPath, by)
    ELSE /\ run = Idle
         /\ run' = [ReindexRun("threw", relPath, 0, NoFile, "none", by)
                      EXCEPT !.at = "start"]
         /\ lastFull' = FALSE
         /\ UNCHANGED <<db, tx>>

\* watcher.on('change' | 'add', handleChange): the file is written and the
\* event delivered
handleChange(fullPath) ==
  LET relPath == fullPath
  IN /\ watcher = "running"
     /\ run = Idle
     /\ NoTimerDue
     /\ events < MaxEvents
     /\ events' = events + 1
     /\ IF fullPath \in Paths
          THEN \E c \in Allowed[fullPath] :
                 /\ c # disk[fullPath]
                 /\ disk' = [disk EXCEPT ![fullPath] = c]
          ELSE UNCHANGED disk
     /\ IF ~isSupportedFile(relPath)
          THEN UNCHANGED debounceMap
          ELSE /\ RoomFor(Cardinality(DOMAIN debounceMap \cup {relPath}))
               /\ debounceMap' = mapSet(debounceMap, relPath, DEBOUNCE_MS)
     /\ burst' = [burst EXCEPT ![relPath] = burstEvent(@)]
     /\ UNCHANGED <<db, tx, run, lastFull, faults, passed, watcher, handle, dvars, qvars>>

\* watcher.on('unlink', handleDelete): the file is deleted and the event
\* delivered; reindexFile is called at once
handleDelete(fullPath) ==
  LET relPath == fullPath
      gone == IF fullPath \in Paths THEN [disk EXCEPT ![fullPath] = NoFile] ELSE disk
  IN /\ watcher = "running"
     /\ NoTimerDue
     /\ events < MaxEvents
     /\ events' = events + 1
     /\ fullPath \in Paths => disk[fullPath] # NoFile
     /\ disk' = gone
     /\ callbackReindex(gone, relPath, "unlink")
     /\ burst' = [burst EXCEPT ![relPath] = burstCall(burstEvent(@))]
     /\ UNCHANGED <<faults, passed, debounceMap, watcher, handle, dvars, qvars>>

\* the setTimeout callback of handleChange
debounceTimeout(relPath) ==
  /\ watcher = "running"
  /\ relPath \in DOMAIN debounceMap
  /\ debounceMap[relPath] <= 0
  /\ debounceMap' = [q \in DOMAIN debounceMap \ {relPath} |-> debounceMap[q]]
  /\ callbackReindex(disk, relPath, "timer")
  /\ burst' = [burst EXCEPT ![relPath] = burstCall(@)]
  /\ UNCHANGED <<disk, faults, passed, watcher, handle, events, dvars, qvars>>

\* the clock advances by one step while the Watcher is idle
Tick ==
  /\ watcher = "running"
  /\ run = Idle
  /\ NoTimerDue
  /\ debounceMap' = [q \in DOMAIN debounceMap |-> debounceMap[q] - TickMs]
  /\ burst' = [q \in WatchPaths |->
                 [burst[q] EXCEPT !.since = Min(@ + TickMs, DEBOUNCE_MS)]]
  /\ UNCHANGED <<disk, db, tx, run, lastFull, faults, passed, watcher, handle, events, dvars, qvars>>

\* a callback's reindexFile call is over: an exception is caught and
\* logged; an uncaught one would end the process
CallbackEnd ==
  /\ Ended
  /\ run.op = "reindex"
  /\ run.by \in {"timer", "unlink"}
  /\ run' = Idle
  /\ watcher' = IF run.pc = "threw" /\ ~catchesReindexError
                   THEN "crashed" ELSE watcher
  /\ UNCHANGED <<disk, db, tx, lastFull, faults, passed, debounceMap, handle, burst, events, dvars, qvars>>

\* the statements of a reindexFile call in progress
ReindexStep ==
  \/ ReindexClear
  \/ ReindexDeleteFile
  \/ ReindexSymbol
  \/ ReindexImport
  \/ ReindexCall

WatcherNext ==
  \/ \E p \in WatchPaths : handleChange(p)
  \/ \E p \in WatchPaths : handleDelete(p)
  \/ \E p \in WatchPaths : debounceTimeout(p)
  \/ Tick
  \/ ReindexStep
  \/ ReindexThrow
  \/ CallbackEnd

\* the process keeps running after the handle is closed
staysAliveAfterClose == FALSE

\* db.close(); process.exit(0): nothing runs between the two
exitsAfterClose == TRUE

\* the SIGINT / SIGTERM handler of the process that runs the Watcher; it
\* runs between callbacks, never inside a call in progress
shutdown ==
  /\ watcher = "running"
  /\ run = Idle
  /\ handle' = "closed"
  /\ watcher' = IF exitsAfterClose THEN "exited" ELSE watcher
  /\ UNCHANGED <<disk, db, tx, run, lastFull, faults, passed, debounceMap, burst,
                 events, dvars, qvars>>

\* the Watcher alone on the store
SpecWatcher == Init /\ [][WatcherNext]_vars

\* time passes, due timers run and a running call runs to its end
SpecWatcherFair ==
  /\ SpecWatcher
  /\ WF_vars(Tick)
  /\ \A p \in WatchPaths : WF_vars(debounceTimeout(p))
  /\ WF_vars(ReindexStep)
  /\ WF_vars(CallbackEnd)

\* the Watcher and the signal that ends its process
SpecShutdown == Init /\ [][WatcherNext \/ shutdown]_vars

(***************************************************************************)
(* Daemon (startDaemon, stopDaemon, isDaemonRunning) and the `daemon`       *)
(* commands of the CLI.                                                     *)
(***************************************************************************)
Pids == 1..MaxPid

\* process.kill(pid, signal) throws when no process has that id
killThrows(pid) == pid \notin DOMAIN procs

\* the pid file holds the process id in ASCII decimal
Decimal == << "1", "2", "3", "4", "5", "6", "7", "8", "9" >>

\* String(child.pid)
toString(pid) == Decimal[pid]

\* parseInt(fs.readFileSync(pidFile, 'utf-8').trim(), 10)
parseInt(text) == CHOOSE n \in DOMAIN Decimal : Decimal[n] = text

\* the probe of the recorded process left out: a start always spawns
isDaemonRunningUnprobed == FALSE

isDaemonRunning ==
  IF pidFile = NoFile THEN FALSE
  ELSE ~killThrows(parseInt(pidFile))

\* the pid file names a process that is not alive
StalePidFile == pidFile # NoFile /\ killThrows(parseInt(pidFile))

\* daemon start
daemonStart ==
  /\ IF isDaemonRunning
       THEN /\ cli' = [cmd |-> "start", out |-> "Daemon is already running.",
                       stale |-> FALSE]
            /\ UNCHANGED <<pidFile, procs>>
       ELSE \E pid \in Pids \ DOMAIN procs :
              /\ procs' = mapSet(procs, pid, "daemon-worker")
              /\ pidFile' = toString(pid)
              /\ cli' = [cmd |-> "start", out |-> "Daemon started",
                         stale |-> StalePidFile]
  /\ UNCHANGED <<disk, db, tx, run, lastFull, faults, passed, wvars, qvars>>

\* daemon stop
daemonStop ==
  /\ IF pidFile = NoFile
       THEN /\ cli' = [cmd |-> "stop", out |-> "No daemon running.", stale |-> FALSE]
            /\ UNCHANGED <<pidFile, procs>>
       ELSE /\ pidFile' = NoFile
            /\ procs' = [q \in DOMAIN procs \ {parseInt(pidFile)} |-> procs[q]]
            /\ cli' = [cmd |-> "stop",
                       out |-> IF killThrows(parseInt(pidFile))
                                 THEN "Daemon was not running. Cleaned up PID file."
                                 ELSE "Daemon stopped",
                       stale |-> StalePidFile]
  /\ UNCHANGED <<disk, db, tx, run, lastFull, faults, passed, wvars, qvars>>

\* daemon status
daemonStatus ==
  /\ cli' = [cmd |-> "status",
             out |-> IF isDaemonRunning THEN "Daemon is running."
                     ELSE "Daemon is not running.",
             stale |-> StalePidFile]
  /\ UNCHANGED <<pidFile, procs>>
  /\ UNCHANGED <<disk, db, tx, run, lastFull, faults, passed, wvars, qvars>>

\* a process ends without `daemon stop`: it crashes, is killed, or the
\* machine restarts
processExit(pid) ==
  /\ pid \in DOMAIN procs
  /\ procs' = [q \in DOMAIN procs \ {pid} |-> procs[q]]
  /\ UNCHANGED <<pidFile, cli>>
  /\ UNCHANGED <<disk, db, tx, run, lastFull, faults, passed, wvars, qvars>>

\* the system starts some other program under a free process id
otherSpawn(pid) ==
  /\ pid \notin DOMAIN procs
  /\ procs' = mapSet(procs, pid, "other")
  /\ UNCHANGED <<pidFile, cli>>
  /\ UNCHANGED <<disk, db, tx, run, lastFull, faults, passed, wvars, qvars>>

DaemonNext ==
  \/ daemonStart
  \/ daemonStop
  \/ daemonStatus
  \/ \E pid \in Pids : processExit(pid)
  \/ \E pid \in Pids : otherSpawn(pid)

\* the daemon commands and the life of the processes they start
SpecDaemon == Init /\ [][DaemonNext]_vars

(***************************************************************************)
(* Root discovery (findProjectRoot, resolveRoot, requireIndex and the head  *)
(* of runMcpServer), over a small directory tree in which any directory     *)
(* may hold .codex/index.db.                                                *)
(***************************************************************************)
Dirs == {"/", "/w", "/w/p", "/e"}

Unset == "undefined"

\* path.dirname
dirname(dir) ==
  CASE dir = "/w/p" -> "/w"
    [] dir = "/w" -> "/"
    [] dir = "/e" -> "/"
    [] dir = "/" -> "/"

RECURSIVE findProjectRoot(_, _)
\* findProjectRoot(startDir): NULL when no directory up to the root holds
\* an index
findProjectRoot(indexed, dir) ==
  IF dir \in indexed THEN dir
  ELSE IF dirname(dir) = dir THEN NULL
  ELSE findProjectRoot(indexed, dirname(dir))

\* a || b
orElse(a, b) == IF a \notin {NULL, Unset} THEN a ELSE b

\* resolveRoot(pathArg)
resolveRoot(c) ==
  IF c.pathArg # Unset THEN c.pathArg
  ELSE orElse(findProjectRoot(c.indexed, c.cwd), c.cwd)

\* requireIndex(pathArg): the root, or exit(1) when no index is found
requireIndex(c) ==
  IF findProjectRoot(c.indexed, resolveRoot(c)) = NULL THEN "exit(1)"
  ELSE findProjectRoot(c.indexed, resolveRoot(c))

\* const rootDir = findProjectRoot() || process.env.CODEX_ROOT || process.cwd()
mcpRootDir(c) ==
  orElse(findProjectRoot(c.indexed, c.cwd), orElse(c.CODEX_ROOT, c.cwd))

RootCalls ==
  [fn : {"root"}, cwd : Dirs, indexed : SUBSET Dirs, CODEX_ROOT : Dirs \cup {Unset},
   pathArg : {Unset}]

InitRoot ==
  /\ StartState
  /\ request \in RootCalls
  /\ result = NoCall

\* the tool server starts
runMcpServer ==
  /\ request.fn = "root"
  /\ result = NoCall
  /\ result' = [fn |-> "runMcpServer", root |-> mcpRootDir(request)]
  /\ UNCHANGED request
  /\ Quiet

\* a CLI command that needs the index starts
cliCommand ==
  /\ request.fn = "root"
  /\ result = NoCall
  /\ result' = [fn |-> "requireIndex", root |-> requireIndex(request)]
  /\ UNCHANGED request
  /\ Quiet

RootNext ==
  \/ runMcpServer
  \/ cliCommand

\* root discovery over every small directory tree
SpecRoot == InitRoot /\ [][RootNext]_vars

(***************************************************************************)
(* Queries (db/queries), each asked of a store that index runs have left.  *)
(***************************************************************************)
\* largest maxDepth asked of getImpact
MaxDepth == 3

QueryPaths == {"a.ts", "b.ts", "c.ts"}

\* the trees the queried stores are indexed from
QueryTrees ==
  {t \in [QueryPaths -> {NoFile, "CA", "CS", "CB", "CB3", "CC"}] :
     /\ t["a.ts"] \in {NoFile, "CA", "CS"}
     /\ t["b.ts"] \in {NoFile, "CB", "CB3"}
     /\ t["c.ts"] \in {NoFile, "CC"}}

\* the names asked for
QueryNames == {"foo", "helper", "bar", "baz", "nosuch"}

\* LEFT JOIN rankings r ON r.symbol_id = s.id ... COALESCE(r.pagerank, 0):
\* the rank column is written from the symbol's ranking row; << >> stands
\* for the 0 of a symbol that has none
pagerankColumn(d, symbolId) ==
  IF \E r \in d.rankings : r.symbol_id = symbolId
    THEN LET r == CHOOSE r \in d.rankings : r.symbol_id = symbolId
         IN <<r.in_degree, r.out_degree>>
    ELSE << >>

\* the edges joined to their target: WHERE (target.name = ? OR
\* target.qualified_name = ?) AND e.kind IN ('calls', 'references')
callerEdges(d, symbolName) ==
  {e \in d.edges :
     /\ e.kind \in {"calls", "references"}
     /\ \E target \in d.symbols :
          /\ target.id = e.to_id
          /\ (target.name = symbolName \/ target.qualified_name = symbolName)
     /\ \E s \in d.symbols : s.id = e.from_id /\ \E f \in d.files : f.id = s.file_id}

\* the projected columns of one joined row
callerColumns(d, e) ==
  LET s == CHOOSE r \in d.symbols : r.id = e.from_id
      f == CHOOSE r \in d.files : r.id = s.file_id
  IN [name |-> s.name, qualified_name |-> s.qualified_name, kind |-> s.kind,
      file |-> f.path, content |-> s.content,
      pagerank |-> pagerankColumn(d, s.id)]

\* the edge kind selected too: DISTINCT no longer merges the two edges of
\* one caller
getCallersPerEdge(d, symbolName) ==
  {[row |-> callerColumns(d, e), edge |-> e.kind] : e \in callerEdges(d, symbolName)}

\* getCallers: SELECT DISTINCT over the projected columns
getCallers(d, symbolName) ==
  {callerColumns(d, e) : e \in callerEdges(d, symbolName)}

\* MIN(i.depth) over a group
MinOf(S) == CHOOSE m \in S : \A x \in S : m <= x

RECURSIVE impactRows(_, _, _)
\* WITH RECURSIVE impact(file_id, depth): rows are pairs <<file_id, depth>>;
\* UNION drops a pair already produced, and a row recurses only while
\* i.depth < maxDepth
impactRows(d, rows, maxDepth) ==
  LET next == {<<fd.from_file, i[2] + 1>> :
                 <<fd, i>> \in {q \in d.file_deps \X rows :
                                  q[1].to_file = q[2][1] /\ q[2][2] < maxDepth}}
  IN IF next \subseteq rows THEN rows ELSE impactRows(d, rows \cup next, maxDepth)

\* getImpact: SELECT f.path, MIN(i.depth), symbolCount ... GROUP BY f.path
getImpact(d, filePath, maxDepth) ==
  LET seed == {<<fd.from_file, 1>> :
                 fd \in {x \in d.file_deps :
                           \E f \in d.files : f.id = x.to_file /\ f.path = filePath}}
      impact == impactRows(d, seed, maxDepth)
      joined == {<<i, f>> \in impact \X d.files : f.id = i[1]}
  IN {[file |-> p,
       depth |-> MinOf({q[1][2] : q \in {j \in joined : j[2].path = p}}),
       symbolCount |-> Cardinality({s \in d.symbols :
                          \E j \in joined : j[2].path = p /\ s.file_id = j[2].id})] :
        p \in {j[2].path : j \in joined}}

\* a store two index runs have left, the tree edited between them
InitQuery ==
  /\ \E t1 \in QueryTrees, t2 \in QueryTrees :
       \E o1 \in Orders(collectFiles(t1)), o2 \in Orders(collectFiles(t2)) :
         /\ disk = t2
         /\ db = indexProject(indexProject(EmptyStore, t1, o1), t2, o2)
         /\ tx = db
  /\ NothingRunning
  /\ request = NoCall
  /\ result = NoCall

callersQuery ==
  /\ \E symbolName \in QueryNames :
       /\ request' = [fn |-> "getCallers", name |-> symbolName]
       /\ result' = [fn |-> "getCallers", rows |-> getCallers(db, symbolName)]
  /\ Quiet

impactQuery ==
  /\ \E filePath \in QueryPaths, maxDepth \in 0..MaxDepth :
       /\ request' = [fn |-> "getImpact", file |-> filePath, maxDepth |-> maxDepth]
       /\ result' = [fn |-> "getImpact", rows |-> getImpact(db, filePath, maxDepth)]
  /\ Quiet

QueryNext == callersQuery \/ impactQuery

SpecQuery == InitQuery /\ [][QueryNext]_vars


(***************************************************************************)
(* Two processes in reindexFile at once, each on its own Store handle: the *)
(* post-edit hook's `claude-ex post-edit` and the daemon's Watcher.  No    *)
(* transaction surrounds reindexFile, so the statements of the two         *)
(* interleave one by one.  request holds each process's position in        *)
(* reindexFile, result the store and file the two were started on.         *)
(***************************************************************************)
Handles == {"post-edit", "daemon-worker"}

\* reindexFile about to run `SELECT id, content_hash FROM files WHERE path = ?`
EnterReindex(relPath, content) ==
  [pc |-> "select", relPath |-> relPath, content |-> content, fileId |-> 0,
   symbolMap |-> EmptyMap, i |-> 0]

\* a file was indexed (or not yet known), then written; both processes are
\* told of the write
InitConcurrent ==
  /\ \E t \in [Paths -> Contents \cup {NoFile}] :
       \E files \in Orders(collectFiles(t)) :
         \E relPath \in Paths : \E content \in Allowed[relPath] :
           /\ \A q \in Paths : t[q] \in Allowed[q] \cup {NoFile}
           /\ t[relPath] # content
           /\ disk = [t EXCEPT ![relPath] = content]
           /\ db = indexProject(EmptyStore, t, files)
           /\ tx = db
           /\ request = [h \in Handles |-> EnterReindex(relPath, content)]
           /\ result = [fn |-> "reindexFile", relPath |-> relPath, pre |-> db]
  /\ NothingRunning

\* one statement of process h ran: it is committed at once
Statement(h, d, frame) ==
  /\ db' = d
  /\ tx' = d
  /\ request' = [request EXCEPT ![h] = frame]
  /\ UNCHANGED <<disk, run, lastFull, faults, passed, wvars, dvars, result>>

\* getOrCreateFile: the SELECT and the test of its content_hash
handleSelect(h) ==
  /\ request[h].pc = "select"
  /\ LET fr == request[h]
         existing == FileByPath(db, fr.relPath)
     IN IF existing = {}
          THEN Statement(h, db, [fr EXCEPT !.pc = "insert_file"])
          ELSE LET ex == CHOOSE f \in existing : TRUE
               IN IF ex.content_hash = hashFile(fr.content)
                    THEN Statement(h, db, [fr EXCEPT !.pc = "returned", !.fileId = ex.id])
                    ELSE Statement(h, db, [fr EXCEPT !.pc = "update", !.fileId = ex.id])

\* getOrCreateFile: UPDATE files ... WHERE id = ?, or INSERT INTO files,
\* which throws on a path another process inserted meanwhile (path UNIQUE)
handleUpsert(h) ==
  /\ request[h].pc \in {"update", "insert_file"}
  /\ LET fr == request[h]
     IN IF fr.pc = "update"
          THEN Statement(h,
                 [db EXCEPT !.files =
                    {IF f.id = fr.fileId
                       THEN [f EXCEPT !.content_hash = hashFile(fr.content),
                                      !.language = getLanguage(fr.relPath),
                                      !.line_count = lineCount(fr.content)]
                       ELSE f : f \in @}],
                 [fr EXCEPT !.pc = "clear_rankings"])
          ELSE IF FileByPath(db, fr.relPath) # {}
                 THEN Statement(h, db, [fr EXCEPT !.pc = "threw"])
                 ELSE LET fileRecord == getOrCreateFile(db, fr.relPath, hashFile(fr.content),
                                          getLanguage(fr.relPath), lineCount(fr.content))
                      IN Statement(h, fileRecord.d,
                                   [fr EXCEPT !.pc = "clear_rankings",
                                              !.fileId = fileRecord.id])

\* clearFileData: its four DELETE statements
handleClear(h) ==
  /\ request[h].pc \in {"clear_rankings", "clear_edges", "clear_symbols", "clear_deps"}
  /\ LET fr == request[h]
         n == nextStatement("symbols", 1, parseFile(fr.relPath, fr.content))
     IN CASE fr.pc = "clear_rankings" ->
               Statement(h, clearRankings(db, fr.fileId), [fr EXCEPT !.pc = "clear_edges"])
          [] fr.pc = "clear_edges" ->
               Statement(h, clearEdges(db, fr.fileId), [fr EXCEPT !.pc = "clear_symbols"])
          [] fr.pc = "clear_symbols" ->
               Statement(h, clearSymbols(db, fr.fileId), [fr EXCEPT !.pc = "clear_deps"])
          [] fr.pc = "clear_deps" ->
               Statement(h, clearFileDeps(db, fr.fileId),
                         [fr EXCEPT !.pc = n.pc, !.i = n.i])

\* one insertSymbol, insertFileDep or insertEdge of the three loops
handleInsert(h) ==
  /\ request[h].pc \in {"symbols", "imports", "calls"}
  /\ LET fr == request[h]
         parsed == parseFile(fr.relPath, fr.content)
         n == nextStatement(fr.pc, fr.i + 1, parsed)
         st == symbolStep([d |-> db, symbolMap |-> fr.symbolMap], fr.fileId,
                          parsed.symbols[fr.i])
     IN CASE fr.pc = "symbols" ->
               Statement(h, st.d, [fr EXCEPT !.pc = n.pc, !.i = n.i,
                                             !.symbolMap = st.symbolMap])
          [] fr.pc = "imports" ->
               Statement(h, importStep(db, disk, fr.relPath, fr.fileId, parsed.imports[fr.i]),
                         [fr EXCEPT !.pc = n.pc, !.i = n.i])
          [] fr.pc = "calls" ->
               Statement(h, callStep(db, fr.symbolMap, parsed.calls[fr.i]),
                         [fr EXCEPT !.pc = n.pc, !.i = n.i])

ConcurrentNext ==
  \E h \in Handles :
    \/ handleSelect(h)
    \/ handleUpsert(h)
    \/ handleClear(h)
    \/ handleInsert(h)

SpecConcurrent == InitConcurrent /\ [][ConcurrentNext]_vars

(***************************************************************************)
(* The Resolver asked about one import, in a tree that holds any of the    *)
(* candidates for ./lib: lib.ts ... lib.go, lib itself (a file or a        *)
(* directory) and lib/index.ts ... lib/index.jsx.  A file lib/index.* lies  *)
(* in the directory lib: it exists only where lib is a directory.          *)
(***************************************************************************)
\* what the tree holds at a path that is a directory
Directory == "EISDIR"

ResolvePaths ==
  {"lib" \o extensions[i] : i \in DOMAIN extensions}
    \cup {"lib" \o indexFiles[i] : i \in DOMAIN indexFiles}

InitResolve ==
  /\ disk \in [ResolvePaths -> {NoFile, "CB", Directory}]
  /\ \A p \in ResolvePaths : disk[p] = Directory => p = "lib"
  /\ \A i \in DOMAIN indexFiles :
       disk["lib" \o indexFiles[i]] # NoFile => disk["lib"] = Directory
  /\ db = EmptyStore
  /\ tx = EmptyStore
  /\ NothingRunning
  /\ request \in [fn : {"resolveImportPath"}, fromFile : {"a.ts"},
                  importSource : Specifiers]
  /\ result = NoCall

resolveImport ==
  /\ request.fn = "resolveImportPath"
  /\ result = NoCall
  /\ result' = [fn |-> "resolveImportPath",
                resolved |-> resolveImportPath(disk, request.fromFile,
                                               request.importSource)]
  /\ UNCHANGED request
  /\ Quiet

SpecResolve == InitResolve /\ [][resolveImport]_vars

(***************************************************************************)
(* The PageRank iteration of computePageRank on its own.  The code holds   *)
(* each rank in a Float64; here a rank is the exact fraction               *)
(* rank[i] / den, all ranks over one denominator, so that sums and          *)
(* equalities are those of the real numbers the code approximates.  A run  *)
(* is followed for as many of its iterations as the denominator fits a     *)
(* machine integer.                                                         *)
(***************************************************************************)
\* number of symbols in the graphs ranked
MaxNodes == 3
\* number of edges rows in the graphs ranked
MaxEdges == 3
\* largest denominator an iteration may start from
MaxDen == 2000000000

\* iterations: number = 20
iterations == 20
\* damping: number = 0.85, as the fraction 17 / 20
dampingNum == 17
dampingDen == 20

RECURSIVE GCD(_, _)
GCD(a, b) == IF b = 0 THEN a ELSE GCD(b, a % b)

LCM(a, b) == (a * b) \div GCD(a, b)

RECURSIVE SumTo(_, _)
\* f[1] + ... + f[k]
SumTo(f, k) == IF k = 0 THEN 0 ELSE f[k] + SumTo(f, k - 1)

RECURSIVE GcdTo(_, _)
GcdTo(f, k) == IF k = 0 THEN 0 ELSE GCD(f[k], GcdTo(f, k - 1))

RECURSIVE LcmTo(_, _)
LcmTo(f, k) == IF k = 0 THEN 1 ELSE LCM(IF f[k] = 0 THEN 1 ELSE f[k], LcmTo(f, k - 1))

\* the rows of edges among n symbols: the primary key (from_id, to_id, kind)
EdgeRows(n) ==
  {e \in [from_id : 1..n, to_id : 1..n, kind : {"calls", "references"}] :
     e.from_id # e.to_id}

\* outgoing[i] holds j once per edges row from i to j
links(g, i, j) == Cardinality({e \in g.edges : e.from_id = i /\ e.to_id = j})

outDegree(g, i) == Cardinality({e \in g.edges : e.from_id = i})

inDegree(g, i) == Cardinality({e \in g.edges : e.to_id = i})

\* a common multiple of n and the out-degrees: every share of one iteration
\* is a whole number over den * dampingDen * shareUnit(g)
shareUnit(g) == LCM(g.n, LcmTo([i \in 1..g.n |-> outDegree(g, i)], g.n))

\* the rank of a dangling node is not handed on
danglingShareDropped(g, rank, i) == 0

\* damping * (rank[i] / n), what a node with no outgoing edge adds to every
\* newRank[j]
danglingShare(g, rank, i) == dampingNum * rank[i] * (shareUnit(g) \div g.n)

\* damping * (rank[i] / outDegree[i]) once per link from i to j
linkShare(g, rank, i, j) ==
  dampingNum * rank[i] * (shareUnit(g) \div outDegree(g, i)) * links(g, i, j)

\* one pass of `for (let iter ...)`: newRank before the swap, over the
\* denominator den * dampingDen * shareUnit(g)
newRank(g, rank, den) ==
  [j \in 1..g.n |->
     (dampingDen - dampingNum) * den * (shareUnit(g) \div g.n)
       + SumTo([i \in 1..g.n |->
                  IF outDegree(g, i) > 0 THEN linkShare(g, rank, i, j)
                  ELSE danglingShare(g, rank, i)], g.n)]

\* the same fractions in lowest terms
reduced(rank, den, n) ==
  LET k == GCD(den, GcdTo(rank, n))
  IN [rank |-> [i \in 1..n |-> rank[i] \div k], den |-> den \div k]

\* the symbols and edges read, and rank filled with 1 / n
InitPageRank ==
  /\ disk = [p \in Paths |-> NoFile]
  /\ db = EmptyStore
  /\ tx = EmptyStore
  /\ NothingRunning
  /\ \E n \in 1..MaxNodes : \E edges \in SUBSET EdgeRows(n) :
       /\ Cardinality(edges) <= MaxEdges
       /\ request = [fn |-> "computePageRank", n |-> n, edges |-> edges]
  /\ result = [fn |-> "computePageRank", iter |-> 0,
               rank |-> [i \in 1..request.n |-> 1], den |-> request.n]

pageRankIteration ==
  /\ request.fn = "computePageRank"
  /\ result.iter < iterations
  /\ result.den <= MaxDen \div (dampingDen * shareUnit(request))
  /\ LET next == reduced(newRank(request, result.rank, result.den),
                         result.den * dampingDen * shareUnit(request), request.n)
     IN result' = [fn |-> "computePageRank", iter |-> result.iter + 1,
                   rank |-> next.rank, den |-> next.den]
  /\ UNCHANGED request
  /\ Quiet

SpecPageRank == InitPageRank /\ [][pageRankIteration]_vars

(***************************************************************************)
(* Properties.                                                             *)
(***************************************************************************)
IdsOf(rows) == {r.id : r \in rows}

\* the statement-by-statement reindexFile ends where the whole call does
ReindexStepsAgree ==
  (run.op = "reindex" /\ run.pc = "returned")
    => db = reindexFile(run.pre, disk, run.relPath)

\* the statement-by-statement indexProject ends where the whole call does
IndexStepsAgree ==
  (run.op = "index" /\ run.pc = "returned")
    => db = indexProject(run.pre, disk, run.files)

RefIntegrity(d) ==
  /\ \A s \in d.symbols : s.file_id \in IdsOf(d.files)
  /\ \A e \in d.edges : e.from_id \in IdsOf(d.symbols) /\ e.to_id \in IdsOf(d.symbols)
  /\ \A fd \in d.file_deps :
       fd.from_file \in IdsOf(d.files) /\ fd.to_file \in IdsOf(d.files)

\* C1: in every state reached by index_project, reindex_file, remove_file
\* and remove_stale, whether committed or inside the open transaction,
\* every Symbol's file_id names an existing File, both ends of every Edge
\* name existing Symbols and both ends of every FileDep name existing Files.
C1_ReferentialIntegrity == RefIntegrity(db) /\ RefIntegrity(tx)

\* a removeFile has just deleted a file that other files imported and whose
\* symbols had incoming edges
C1_Witness ==
  /\ run.op = "reindex"
  /\ run.pc = "returned"
  /\ run.then = "delete_file"
  /\ \E fd \in run.pre.file_deps : fd.to_file = run.fileId /\ fd.from_file # run.fileId
  /\ \E e \in run.pre.edges : e.to_id \in SymbolIdsOfFile(run.pre, run.fileId)
  /\ db.symbols # {}

TxPcs == {"file", "stale", "cross", "commit"}

\* C2: while index_project is inside its outer transaction, and after that
\* transaction was rolled back, another Store handle reads the store exactly
\* as it was when the run began; nothing of the per-file pass, the stale
\* removal or the cross-file pass is visible before COMMIT.
C2_IndexIsolated ==
  (run.op = "index" /\ (run.pc \in TxPcs \/ (run.pc = "threw" /\ run.at \in TxPcs)))
    => db = run.pre

\* the run has re-parsed one of two collected files and has not committed
C2_Witness ==
  /\ run.op = "index"
  /\ run.pc = "file"
  /\ run.i = 2
  /\ run.indexedFiles = 1
  /\ tx.symbols # run.pre.symbols
  /\ run.pre.symbols # {}

SymDesc(s) ==
  [name |-> s.name, qualified_name |-> s.qualified_name, kind |-> s.kind,
   content |-> s.content, exported |-> s.exported]

ParsedDesc(sym) ==
  [name |-> sym.name, qualified_name |-> sym.qualifiedName, kind |-> sym.kind,
   content |-> sym.content, exported |-> sym.exported]

PathOfFile(d, id) == (CHOOSE f \in d.files : f.id = id).path

\* a symbol named apart from its integer identity: its file and its names
SymRef(d, id) ==
  LET s == CHOOSE r \in d.symbols : r.id = id
  IN [path |-> PathOfFile(d, s.file_id), name |-> s.name,
      qualified_name |-> s.qualified_name]

\* what a query can learn about one file: its digest, its symbols, the
\* edges at its symbols, its outgoing file-deps and its ranked symbols
FileView(d, filePath) ==
  IF FileByPath(d, filePath) = {} THEN [present |-> FALSE]
  ELSE LET f == CHOOSE r \in FileByPath(d, filePath) : TRUE
           ids == SymbolIdsOfFile(d, f.id)
       IN [present |-> TRUE,
           digest |-> f.content_hash,
           symbols |-> {SymDesc(x) : x \in SymbolsOfFile(d, f.id)},
           edges |-> {[from |-> SymRef(d, e.from_id), to |-> SymRef(d, e.to_id),
                       kind |-> e.kind] :
                        e \in {g \in d.edges : g.from_id \in ids \/ g.to_id \in ids}},
           file_deps |-> {[to |-> PathOfFile(d, fd.to_file),
                           import_name |-> fd.import_name] :
                            fd \in {g \in d.file_deps : g.from_file = f.id}},
           ranked |-> {SymDesc(x) :
                        x \in {y \in SymbolsOfFile(d, f.id) :
                                 \E r \in d.rankings : r.symbol_id = y.id}}]

\* C3: while reindex_file(f) executes, another Store handle sees f either
\* entirely as before the call or entirely as the completed call leaves it.
C3_ReindexAtomic ==
  (run.op = "reindex" /\ ~Ended)
    => FileView(db, run.relPath) \in
         { FileView(run.pre, run.relPath),
           FileView(reindexFile(run.pre, disk, run.relPath), run.relPath) }

\* C4: when a Store write fails part-way through reindex_file, the store is
\* left exactly as it was before the call.
C4_ReindexFailureRestores ==
  (run.op = "reindex" /\ run.pc = "threw") => db = run.pre

DigestMatchesSymbols(d, f) ==
  \E c \in Contents :
    /\ hashFile(c) = f.content_hash
    /\ {SymDesc(x) : x \in SymbolsOfFile(d, f.id)}
         = {ParsedDesc(sym) : sym \in Range(parseFile(f.path, c).symbols)}

\* C5: after every index_project or reindex_file call, returned or thrown,
\* each File row's digest is the digest of the content its current Symbol
\* rows were parsed from.
C5_DigestMatchesSymbols ==
  Ended => \A f \in db.files : DigestMatchesSymbols(db, f)

RankedIds(d) == {r.symbol_id : r \in d.rankings}

\* C6: after every index_project call that returns, the symbol ids with a
\* Ranking row are exactly the Symbol ids, one Ranking row per Symbol.
C6_RankingsCoverSymbols ==
  (run.op = "index" /\ run.pc = "returned")
    => /\ RankedIds(db) = IdsOf(db.symbols)
       /\ \A s \in db.symbols :
            Cardinality({r \in db.rankings : r.symbol_id = s.id}) = 1

\* a full index has returned over a store that held rankings for some
\* symbols and none for others
C6_Witness ==
  /\ run.op = "index"
  /\ run.pc = "returned"
  /\ run.pre.rankings # {}
  /\ RankedIds(run.pre) # IdsOf(run.pre.symbols)
  /\ Cardinality(db.symbols) >= 2

\* C7: in every state of the store a Symbol has a Ranking row if and only
\* if a PageRank pass has completed since the Symbol row was inserted, and
\* no Ranking row outlives its Symbol.
C7_RankingIffPassed ==
  /\ \A s \in db.symbols : (s.id \in RankedIds(db)) <=> (s.id \in passed)
  /\ RankedIds(db) \subseteq IdsOf(db.symbols)

FtsConsistent(d) ==
  /\ \A s \in d.symbols : CopiesIn(FtsRow(s), d.fts) = 1
  /\ \A e \in BagToSet(d.fts) : \E s \in d.symbols : e = FtsRow(s)

\* C8: after any sequence of symbol inserts and deletes the FTS projection
\* holds exactly one entry per live Symbol row, with that row's name,
\* qualified_name and text, and no entry for a rowid that is not live.
C8_FtsConsistent == FtsConsistent(db) /\ FtsConsistent(tx)

\* a reindex has deleted symbol rows and inserted others
C8_Witness ==
  /\ run.op = "reindex"
  /\ run.pc = "returned"
  /\ run.pre.symbols \ db.symbols # {}
  /\ db.symbols \ run.pre.symbols # {}
  /\ \E s \in db.symbols : s.qualified_name # NULL

\* C9: index_project run again right after a full index, over the same
\* tree, reports indexedFiles = 0 and leaves the File, Symbol, Edge and
\* FileDep rows as the first run left them.
C9_SecondRunTouchesNothing ==
  (run.op = "index" /\ run.pc = "returned" /\ run.repeat)
    => /\ run.indexedFiles = 0
       /\ db.files = run.pre.files
       /\ db.symbols = run.pre.symbols
       /\ db.edges = run.pre.edges
       /\ db.file_deps = run.pre.file_deps

\* the second of two runs in a row has returned over a tree with symbols,
\* edges and a file-dep
C9_Witness ==
  /\ run.op = "index"
  /\ run.pc = "returned"
  /\ run.repeat
  /\ Cardinality(db.files) = 2
  /\ db.edges # {}
  /\ db.file_deps # {}

StillDeclared(d, ref) == \E s \in d.symbols : SymRef(d, s.id) = ref

\* C10: a full re-index keeps, for every file whose digest is unchanged,
\* its Symbol rows with their identities, every Edge from one of its
\* symbols to a target that is still declared after the run, and a Ranking
\* row for each of its symbols, whatever happened to other files.
C10_UnchangedFileKeepsEdges ==
  (run.op = "index" /\ run.pc = "returned")
    => \A p \in run.unchanged :
         LET olds == SymbolsOfFile(run.pre,
                                   (CHOOSE f \in FileByPath(run.pre, p) : TRUE).id)
         IN /\ olds \subseteq db.symbols
            /\ \A e \in run.pre.edges :
                 (e.from_id \in IdsOf(olds)
                    /\ StillDeclared(db, SymRef(run.pre, e.to_id)))
                   => \E e2 \in db.edges :
                        /\ e2.from_id = e.from_id
                        /\ e2.kind = e.kind
                        /\ SymRef(db, e2.to_id) = SymRef(run.pre, e.to_id)
            /\ \A s \in olds : s.id \in RankedIds(db)

FileIdOf(d, filePath) == (CHOOSE f \in FileByPath(d, filePath) : TRUE).id

\* C11: after every index_project run that returns, for every collected
\* file A importing a name X from a specifier that resolves to a collected
\* file B in which X is an exported symbol, a references edge leads from
\* every symbol of A to X.
C11_ImportersReferenceExports ==
  (run.op = "index" /\ run.pc = "returned")
    => \A A \in run.validPaths :
         \A imp \in Range(parseFile(A, disk[A]).imports) :
           LET B == resolveImportPath(disk, A, imp.source)
           IN B \in run.validPaths
                => \A X \in SymbolsOfFile(db, FileIdOf(db, B)) :
                     (X.exported /\ X.name \in Range(imp.names))
                       => \A s \in SymbolsOfFile(db, FileIdOf(db, A)) :
                            s.id # X.id
                              => [from_id |-> s.id, to_id |-> X.id,
                                  kind |-> "references"] \in db.edges

\* C12: after index_project returns, every import of a re-parsed file whose
\* specifier resolves to a collected file has its FileDep row, in whatever
\* order the files were collected; after reindex_file(f) returns, so has
\* every import of f whose target had a File row when the call began.
C12_ResolvableImportsHaveFileDeps ==
  /\ (run.op = "index" /\ run.pc = "returned")
       => \A A \in run.validPaths \ run.unchanged :
            \A imp \in Range(parseFile(A, disk[A]).imports) :
              LET B == resolveImportPath(disk, A, imp.source)
              IN B \in run.validPaths
                   => [from_file |-> FileIdOf(db, A), to_file |-> FileIdOf(db, B),
                       kind |-> "import", import_name |-> importNameOf(imp)]
                        \in db.file_deps
  /\ (run.op = "reindex" /\ run.pc = "returned" /\ run.then = "insert")
       => \A imp \in Range(parseFile(run.relPath, run.content).imports) :
            LET B == resolveImportPath(disk, run.relPath, imp.source)
            IN (B # NULL /\ FileByPath(run.pre, B) # {})
                 => [from_file |-> run.fileId, to_file |-> FileIdOf(db, B),
                     kind |-> "import", import_name |-> importNameOf(imp)]
                      \in db.file_deps

\* the files of the store the run began with that the Collector no longer
\* reports
StaleFiles == {f \in run.pre.files : f.path \notin run.validPaths}

\* no row of store d is rooted at file row f (of store old)
NothingRootedAt(d, old, f) ==
  LET ids == SymbolIdsOfFile(old, f.id)
  IN /\ \A s \in d.symbols : s.file_id # f.id /\ s.id \notin ids
     /\ \A e \in d.edges : e.from_id \notin ids /\ e.to_id \notin ids
     /\ \A fd \in d.file_deps : fd.from_file # f.id /\ fd.to_file # f.id
     /\ \A r \in d.rankings : r.symbol_id \notin ids
     /\ \A x \in BagToSet(d.fts) : x.rowid \notin ids

\* C13: after index_project returns, every File row's path is in the set
\* the Collector reported for the run, and no Symbol, Edge, FileDep (from or
\* to) or Ranking of a file removed as stale remains.
C13_StaleFilesRemoved ==
  (run.op = "index" /\ run.pc = "returned")
    => /\ \A f \in db.files : f.path \in run.validPaths
       /\ \A f \in StaleFiles : NothingRootedAt(db, run.pre, f)

\* a run has returned that found a stale file with a symbol other symbols
\* pointed at, a ranking and an importer, while another file stayed
C13_Witness ==
  /\ run.op = "index"
  /\ run.pc = "returned"
  /\ db.files # {}
  /\ \E f \in StaleFiles :
       /\ \E fd \in run.pre.file_deps : fd.to_file = f.id
       /\ \E e \in run.pre.edges : e.to_id \in SymbolIdsOfFile(run.pre, f.id)
       /\ \E r \in run.pre.rankings : r.symbol_id \in SymbolIdsOfFile(run.pre, f.id)

StoreIsEmpty(d) ==
  /\ d.files = {}
  /\ d.symbols = {}
  /\ d.edges = {}
  /\ d.file_deps = {}
  /\ d.rankings = {}
  /\ d.fts = EmptyBag

\* C14: removeStaleFiles with the empty set of valid paths leaves the store
\* empty: run on the store a full index left, and run by index_project over
\* a tree with no collectable file, no File, Symbol, Edge, FileDep, Ranking
\* or FTS entry remains.
C14_RemoveStaleEmptySet ==
  /\ (run.op = "index" /\ run.pc = "returned")
       => StoreIsEmpty(removeStaleFiles(db, {}))
  /\ (run.op = "index" /\ run.pc = "cross" /\ run.validPaths = {})
       => StoreIsEmpty(tx)

\* removeStaleFiles has just run with no valid path on a store of two
\* files with symbols, edges, a file-dep and rankings
C14_Witness ==
  /\ run.op = "index"
  /\ run.pc = "cross"
  /\ run.validPaths = {}
  /\ Cardinality(run.pre.files) = 2
  /\ run.pre.edges # {}
  /\ run.pre.file_deps # {}
  /\ run.pre.rankings # {}
  /\ run.pre.fts # EmptyBag

\* C15: when reindex_file(rel) returns and rel was not on disk, the store
\* has no File row with path rel and no Symbol, Edge, Ranking, FTS entry or
\* FileDep (from or to) of the row it had; if there was no such row the
\* store is as it was before the call.
C15_ReindexMissingFileRemoves ==
  (run.op = "reindex" /\ run.pc = "returned" /\ run.content = NoFile)
    => /\ FileByPath(db, run.relPath) = {}
       /\ \A f \in FileByPath(run.pre, run.relPath) : NothingRootedAt(db, run.pre, f)
       /\ FileByPath(run.pre, run.relPath) = {} => db = run.pre

\* reindexFile has returned for a deleted file that had ranked symbols and
\* was imported by a file that is still indexed
C15_Witness ==
  /\ run.op = "reindex"
  /\ run.pc = "returned"
  /\ run.content = NoFile
  /\ \E f \in FileByPath(run.pre, run.relPath) :
       /\ \E fd \in run.pre.file_deps : fd.to_file = f.id /\ fd.from_file # f.id
       /\ \E r \in run.pre.rankings : r.symbol_id \in SymbolIdsOfFile(run.pre, f.id)
       /\ \E g \in db.files : g.id # f.id

\* C16: in every state of the store, committed or inside a transaction, no
\* Edge row leads from a Symbol to itself.
C16_NoSelfEdge ==
  \A e \in db.edges \cup tx.edges : e.from_id # e.to_id

\* the call pass has run over a file in which a function calls itself and
\* written its other call edge
C16_Witness ==
  /\ run.op = "reindex"
  /\ run.pc = "returned"
  /\ run.then = "insert"
  /\ \E c \in Range(parseFile(run.relPath, run.content).calls) :
       c.callerSymbol = c.calledName
  /\ \E e \in db.edges : e.kind = "calls"

ByWatcher == run.op = "reindex" /\ run.by \in {"timer", "unlink"}

\* the burst on path p is over: 200 ms have passed since its last event,
\* its timer has run and no call is in progress
BurstOver(p) ==
  /\ burst[p].since >= DEBOUNCE_MS
  /\ p \notin DOMAIN debounceMap
  /\ run = Idle

\* C17: for a burst of add, change and unlink events on one supported path,
\* consecutive events less than 200 ms apart, the Watcher calls reindexFile
\* for the path exactly once, after the last event of the burst.
C17_OneReindexPerBurst ==
  \A p \in {q \in WatchPaths : isSupportedFile(q)} :
    /\ burst[p].calls <= 1
    /\ (BurstOver(p) /\ burst[p] # NoBurst) => (burst[p].calls = 1 /\ burst[p].last)

\* C18: no add, change or unlink event on a file of an unsupported type
\* makes the Watcher call reindexFile or change the store.
C18_UnsupportedEventsDropped ==
  /\ ByWatcher => isSupportedFile(run.relPath)
  /\ \A p \in DOMAIN debounceMap : isSupportedFile(p)

\* C19: when a reindexFile call made by the Watcher throws, the process
\* keeps running and the path has no debounce entry left from that timer;
\* a timer set by any later add or change event on a supported path still
\* runs and calls reindexFile for that path.
C19_WatcherSurvivesErrors ==
  /\ [](watcher = "running")
  /\ []((ByWatcher /\ run.pc = "threw" /\ run.by = "timer")
          => run.relPath \notin DOMAIN debounceMap)
  /\ \A p \in {q \in WatchPaths : isSupportedFile(q)} :
       (faults > 0 /\ run = Idle /\ p \in DOMAIN debounceMap)
         ~> (ByWatcher /\ run.by = "timer" /\ run.relPath = p)

\* the only path that ever had an event saw a Watcher call throw; after
\* the catch a later event on it has set a timer, whose callback is running
C19_Witness ==
  /\ faults > 0
  /\ ByWatcher
  /\ run.by = "timer"
  /\ run.pc = "clear_rankings"
  /\ \A q \in WatchPaths \ {run.relPath} :
       burst[q] = NoBurst /\ q \notin DOMAIN debounceMap

\* C20: `daemon status`, run when the pid file names a process that is no
\* longer alive, reports that the daemon is not running and removes the
\* pid file, so that no pid file exists afterwards.
C20_StatusCleansStalePidFile ==
  (cli.cmd = "status" /\ cli.stale)
    => (cli.out = "Daemon is not running." /\ pidFile = NoFile)

\* C21: when CODEX_ROOT is set the project root used is CODEX_ROOT, even
\* if walking up from the current directory finds an index; discovery and
\* then the current directory are used only when CODEX_ROOT is unset.
C21_CodexRootOverrides ==
  result.fn \in {"runMcpServer", "requireIndex"}
    => result.root = IF request.CODEX_ROOT # Unset THEN request.CODEX_ROOT
                     ELSE IF result.fn = "requireIndex" THEN requireIndex(request)
                     ELSE orElse(findProjectRoot(request.indexed, request.cwd), request.cwd)

\* the callers of a name: the symbols at the source end of a calls or
\* references edge whose target carries the name
CallerIds(d, symbolName) ==
  {e.from_id : e \in {x \in d.edges :
     /\ x.kind \in {"calls", "references"}
     /\ \E t \in d.symbols : t.id = x.to_id /\ symbolName \in {t.name, t.qualified_name}}}

\* C22: callers(name) returns exactly the symbols at the source of a calls
\* or references edge to a symbol whose name or qualified name is `name`,
\* one row for each such symbol however many edges it has to the target
C22_CallersEachOnce ==
  request.fn = "getCallers" =>
    /\ Cardinality(result.rows) = Cardinality(CallerIds(db, request.name))
    /\ \A id \in CallerIds(db, request.name) :
         \E row \in result.rows :
           /\ row.name = SymRef(db, id).name
           /\ row.qualified_name = SymRef(db, id).qualified_name
           /\ row.file = SymRef(db, id).path

\* a caller with both a calls and a references edge to the symbol asked for
C22_Witness ==
  /\ request.fn = "getCallers"
  /\ result.rows # {}
  /\ \E e1 \in db.edges, e2 \in db.edges :
       /\ e1.from_id = e2.from_id /\ e1.to_id = e2.to_id
       /\ e1.kind = "calls" /\ e2.kind = "references"
       /\ SymRef(db, e1.to_id).name = request.name

RECURSIVE ReachAt(_, _, _)
\* the files with a path of file-deps of length exactly k to one of `to`
ReachAt(d, to, k) ==
  LET from == {fd.from_file : fd \in {x \in d.file_deps : x.to_file \in to}}
  IN IF k = 1 THEN from ELSE ReachAt(d, from, k - 1)

\* the lengths, up to maxDepth, of the paths from file `id` to filePath
PathLengths(d, id, filePath, maxDepth) ==
  {k \in 1..maxDepth : id \in ReachAt(d, {f.id : f \in FileByPath(d, filePath)}, k)}

\* every file with a path of length 1..maxDepth to the file asked for is
\* reported once with its shortest distance, and no other file is
ImpactIsShortestPaths ==
  /\ \A f \in db.files :
       LET lengths == PathLengths(db, f.id, request.file, request.maxDepth)
       IN IF lengths = {}
            THEN \A row \in result.rows : row.file # f.path
            ELSE /\ Cardinality({row \in result.rows : row.file = f.path}) = 1
                 /\ \A row \in result.rows :
                      row.file = f.path => row.depth = MinOf(lengths)
  /\ \A row \in result.rows : \E f \in db.files : f.path = row.file

\* C27: impact(file, max_depth) reports each file from which `file` is
\* reachable along file-deps by a path of length 1..max_depth, exactly once,
\* with the length of the shortest such path; a file reachable only by a
\* longer path is not reported
C27_ImpactShortestDepth ==
  request.fn = "getImpact" => ImpactIsShortestPaths

\* the same for a maxDepth of at least 1
C27_ImpactPositiveDepth ==
  (request.fn = "getImpact" /\ request.maxDepth >= 1) => ImpactIsShortestPaths

\* a cycle of file-deps through the file asked for: it is its own dependent
C27_CycleWitness ==
  /\ request.fn = "getImpact"
  /\ request.maxDepth >= 2
  /\ \E row \in result.rows : row.file = request.file /\ row.depth = 2
  /\ \E row \in result.rows : row.depth = 1

\* C23: the PageRank write replaces the previous generation of rankings
\* atomically: while symbols exist no other handle sees the table empty or
\* partly written, and a failure while inserting leaves the previous rows.
\* Stated for an index run repeated on an unedited tree, where the previous
\* generation is complete and equals the new one
C23_RankingsReplacedAtomically ==
  (run.op = "index" /\ run.repeat /\ run.pre.symbols # {})
    => /\ db.rankings = run.pre.rankings
       /\ RankedIds(db) = IdsOf(db.symbols)

\* both processes have left reindexFile
BothEnded == \A h \in Handles : request[h].pc \in {"returned", "threw"}

\* the Symbol rows of the file at relPath that carry the names of sym
RowsDeclaring(d, relPath, sym) ==
  {r \in d.symbols :
     /\ r.file_id \in {f.id : f \in FileByPath(d, relPath)}
     /\ r.name = sym.name
     /\ r.qualified_name = sym.qualifiedName}

\* C24: two processes with separate handles run reindex_file on the same
\* changed file at once: when both are done the store is what a sequential
\* execution leaves, each declared symbol has exactly one Symbol row, and
\* the file's digest is that of its content
C24_ConcurrentReindexAsSequential ==
  BothEnded =>
    LET relPath == result.relPath
        sequential == reindexFile(reindexFile(result.pre, disk, relPath), disk, relPath)
        parsed == parseFile(relPath, disk[relPath])
    IN /\ \A i \in 1..Len(parsed.symbols) :
            Cardinality(RowsDeclaring(db, relPath, parsed.symbols[i])) = 1
       /\ \A f \in FileByPath(db, relPath) : f.content_hash = hashFile(disk[relPath])
       /\ FileView(db, relPath) = FileView(sequential, relPath)

\* C25: the Watcher never outlives its Store handle: no Watcher callback,
\* the unlink handler or a pending 200 ms timer, calls reindex_file after
\* shutdown has closed the handle
C25_NoCallbackAfterClose == ByWatcher => handle = "open"

\* shutdown closed the handle while a debounce timer was pending
C25_Witness ==
  /\ handle = "closed"
  /\ watcher = "exited"
  /\ DOMAIN debounceMap # {}

\* the candidates of a base path in the order the specification gives
CandidateOrder(base) ==
  << base \o ".ts", base \o ".tsx", base \o ".js", base \o ".jsx", base \o ".py",
     base \o ".rs", base \o ".go", base,
     base \o "/index.ts", base \o "/index.tsx", base \o "/index.js",
     base \o "/index.jsx" >>

\* C28: the Resolver returns none for a specifier beginning with neither
\* `.` nor `/`; otherwise it returns the first existing candidate in the
\* order base+.ts, .tsx, .js, .jsx, .py, .rs, .go, base itself, base/index.ts,
\* /index.tsx, /index.js, /index.jsx, and none when no candidate exists
C28_ResolverCandidateOrder ==
  result.fn = "resolveImportPath" =>
    LET spec == request.importSource
        cands == CandidateOrder(relOf(request.fromFile, spec))
        found == {i \in DOMAIN cands : existsSync(disk, cands[i])}
    IN IF spec \notin {"./a", "./b", "./lib", "/lib"} \/ found = {}
         THEN result.resolved = NULL
         ELSE /\ result.resolved = cands[CHOOSE i \in found : \A j \in found : i <= j]
              /\ existsSync(disk, result.resolved)

\* ./lib resolved to lib.js although lib.py, lib and lib/index.ts exist too
C28_Witness ==
  /\ result.fn = "resolveImportPath"
  /\ request.importSource = "./lib"
  /\ result.resolved = "lib.js"
  /\ existsSync(disk, "lib.py")
  /\ existsSync(disk, "lib")
  /\ existsSync(disk, "lib/index.ts")

\* a package specifier resolves to none although lib.ts exists
C28_PackageWitness ==
  /\ result.fn = "resolveImportPath"
  /\ request.importSource = "lib"
  /\ existsSync(disk, "lib.ts")
  /\ result.resolved = NULL

\* the files of the running index_project whose text the parser fails on
FailsToParse(p) == disk[p] \in {"CX", "CW"}

\* the file at path p is stored with the digest of its text and the symbols
\* declared in it, none when it cannot be parsed
IndexedAsOnDisk(d, p) ==
  \E f \in FileByPath(d, p) :
    /\ f.content_hash = hashFile(disk[p])
    /\ {SymDesc(x) : x \in SymbolsOfFile(d, f.id)}
         = IF FailsToParse(p) THEN {}
           ELSE {ParsedDesc(sym) : sym \in Range(parseFile(p, disk[p]).symbols)}

\* C29: a parser failure on one file during index_project, raised while
\* parsing it or while walking its syntax tree, gives that file an empty
\* parse result and touches no other file: the run completes and commits,
\* the file keeps a File row with its digest and no symbols, and the other
\* files are indexed as usual
C29_ParserFailureIsolated ==
  (run.op = "index" /\ Ended /\ \E p \in Range(run.files) : FailsToParse(p))
    => /\ run.pc = "returned"
       /\ \A p \in Range(run.files) : ~readFileThrows(disk, p) => IndexedAsOnDisk(db, p)

\* the same for failures raised by parser.parse alone
C29_ParseRaiseIsolated ==
  (run.op = "index" /\ Ended
     /\ (\E p \in Range(run.files) : disk[p] = "CX")
     /\ (\A p \in Range(run.files) : disk[p] # "CW"))
    => /\ run.pc = "returned"
       /\ \A p \in Range(run.files) : ~readFileThrows(disk, p) => IndexedAsOnDisk(db, p)

\* the stored File row and Symbols of the file at path p, and the Edges
\* that join its symbols to each other or to a symbol among keep
StoredOf(d, p, keep) ==
  IF FileByPath(d, p) = {} THEN [present |-> FALSE]
  ELSE LET own == SymbolsOfFile(d, FileIdOf(d, p))
       IN [present |-> TRUE,
           file |-> FileByPath(d, p),
           symbols |-> own,
           edges |-> {e \in d.edges :
                        /\ e.from_id \in IdsOf(own) \/ e.to_id \in IdsOf(own)
                        /\ e.from_id \in IdsOf(own) \cup keep
                        /\ e.to_id \in IdsOf(own) \cup keep}]

IsCycle(g) ==
  /\ g.n >= 2
  /\ \A i \in 1..g.n : outDegree(g, i) = 1 /\ inDegree(g, i) = 1

\* C26: each of the 20 PageRank iterations preserves the total mass, so the
\* ranks sum to 1 before and after every iteration; in a cycle whose nodes
\* all have out-degree 1 every rank stays 1/n
C26_PageRankMassPreserved ==
  result.fn = "computePageRank" =>
    /\ SumTo(result.rank, request.n) = result.den
    /\ \A i \in 1..request.n : result.rank[i] > 0
    /\ IsCycle(request) =>
         \A i \in 1..request.n : result.rank[i] * request.n = result.den

\* all 20 iterations have run on a cycle of three symbols
C26_Witness ==
  /\ result.fn = "computePageRank"
  /\ result.iter = iterations
  /\ request.n = 3
  /\ IsCycle(request)
  /\ result.rank = [i \in 1..3 |-> 1]
  /\ result.den = 3

\* iterations have run on a graph with a dangling node and unequal ranks
C26_DanglingWitness ==
  /\ result.fn = "computePageRank"
  /\ result.iter >= 2
  /\ \E i \in 1..request.n : outDegree(request, i) = 0
  /\ \E i, j \in 1..request.n : result.rank[i] # result.rank[j]

\* the Symbol, Edge and FileDep rows of a store with every integer identity
\* replaced by what it names: a file by its path, a symbol by its file and
\* names
GraphOf(d) ==
  [symbols |-> {[path |-> PathOfFile(d, s.file_id), sym |-> SymDesc(s)] : s \in d.symbols},
   edges |-> {[from |-> SymRef(d, e.from_id), to |-> SymRef(d, e.to_id),
               kind |-> e.kind] : e \in d.edges},
   file_deps |-> {[from |-> PathOfFile(d, fd.from_file), to |-> PathOfFile(d, fd.to_file),
                   kind |-> fd.kind, import_name |-> fd.import_name] :
                    fd \in d.file_deps}]

\* C31: the Symbol, Edge and FileDep contents an index_project run leaves
\* are, up to the renaming of integer identities, those the same run leaves
\* on an empty Store over the same tree, whatever index_project and
\* reindex_file runs came before.
C31_IndexDependsOnTreeOnly ==
  (run.op = "index" /\ run.pc = "returned")
    => GraphOf(db) = GraphOf(indexProject(EmptyStore, disk, run.files))

\* the processes a step starts as watcher workers
SpawnedWorkers ==
  {pid \in DOMAIN procs' \ DOMAIN procs : procs'[pid] = "daemon-worker"}

\* C37: `daemon start` spawns no second watcher process when the pid file
\* names a live process; a `daemon start` that spawns leaves a pid file
\* holding the child's pid; and after `daemon stop` no pid file exists,
\* whether or not the recorded process was still alive.
C37_DaemonLifecycle ==
  /\ [][ /\ (pidFile # NoFile /\ parseInt(pidFile) \in DOMAIN procs)
              => SpawnedWorkers = {}
         /\ \A pid \in SpawnedWorkers :
              /\ SpawnedWorkers = {pid}
              /\ pidFile' # NoFile
              /\ parseInt(pidFile') = pid ]_vars
  /\ [](cli.cmd = "stop" => pidFile = NoFile)

\* `daemon start` has declined to spawn beside a live worker whose pid the
\* pid file holds
C37_Witness ==
  /\ cli.cmd = "start"
  /\ cli.out = "Daemon is already running."
  /\ pidFile # NoFile
  /\ parseInt(pidFile) \in DOMAIN procs
  /\ procs[parseInt(pidFile)] = "daemon-worker"
  /\ Cardinality({pid \in DOMAIN procs : procs[pid] = "daemon-worker"}) = 1

\* `daemon stop` has run on a pid file whose process had died
C37_StopWitness ==
  /\ cli.cmd = "stop"
  /\ cli.stale
  /\ cli.out = "Daemon was not running. Cleaned up PID file."
  /\ pidFile = NoFile

\* the walk of collectFiles would push this path, the file holding content
Admits(filePath, content) ==
  /\ \A i \in DOMAIN dirSegments(filePath) : ~prunedDir(dirSegments(filePath)[i])
  /\ extname(filePath) \in SUPPORTED_EXTENSIONS
  /\ statSize(content) <= MAX_FILE_SIZE

\* C32: every File row's path is one the Collector would admit: no File
\* row, committed or in the open transaction, has an unsupported extension
\* or lies under a pruned or dot-prefixed directory, and when a
\* reindex_file or index_project call returns, the row of every file it
\* indexed names a file of at most 524,288 bytes.
C32_FileRowsAdmissible ==
  /\ \A f \in db.files \cup tx.files :
       /\ extname(f.path) \in SUPPORTED_EXTENSIONS
       /\ \A i \in DOMAIN dirSegments(f.path) : ~prunedDir(dirSegments(f.path)[i])
  /\ (run.op = "reindex" /\ run.pc = "returned")
       => \A f \in FileByPath(db, run.relPath) :
            Admits(f.path, disk[pathJoin(f.path)])
  /\ (run.op = "index" /\ run.pc = "returned")
       => \A f \in db.files : Admits(f.path, disk[pathJoin(f.path)])

\* C32, for the size limit alone
C32_NoOversizedFileRow ==
  (run.op = "reindex" /\ run.pc = "returned")
    => \A f \in FileByPath(db, run.relPath) :
         statSize(disk[pathJoin(f.path)]) <= MAX_FILE_SIZE

\* C32, for index_project alone: the rows a returned run leaves are those
\* of collected files
C32_IndexAdmitsOnlyCollected ==
  (run.op = "index" /\ run.pc = "returned" /\ run.pre = EmptyStore)
    => {f.path : f \in db.files} = collectFiles(disk)

\* C36: no two File rows denote the same on-disk file, also after
\* reindex_file was called with a non-canonical relative path for a file
\* already indexed.
C36_OneFileRowPerFile ==
  \A f \in db.files : \A g \in db.files :
    pathJoin(f.path) = pathJoin(g.path) => f = g

\* C33: when a relative specifier names a directory that holds index.ts,
\* and no file named base+extension exists, the Resolver returns the path
\* of that directory's index.ts and not the directory path itself.
C33_IndexFileProbesReachable ==
  (/\ result.fn = "resolveImportPath"
   /\ isRelative(request.importSource)
   /\ relOf(request.fromFile, request.importSource) = "lib"
   /\ disk["lib"] = Directory
   /\ existsSync(disk, "lib/index.ts")
   /\ \A i \in DOMAIN extensions :
        extensions[i] # "" => ~existsSync(disk, "lib" \o extensions[i]))
    => result.resolved = "lib/index.ts"

\* the ids the File row of relPath has in either store
FileIdsOf(pre, post, relPath) ==
  {f.id : f \in FileByPath(pre, relPath) \cup FileByPath(post, relPath)}

\* the rows of store d that are not rooted at the files ids: the other File
\* rows, their Symbols, the Rankings of those, the Edges between those, and
\* the FileDeps of other files that pass keep
Outside(d, ids, keep(_)) ==
  LET own == {s.id : s \in {x \in d.symbols : x.file_id \in ids}}
  IN [files |-> {f \in d.files : f.id \notin ids},
      symbols |-> {s \in d.symbols : s.file_id \notin ids},
      rankings |-> {r \in d.rankings : r.symbol_id \notin own},
      edges |-> {e \in d.edges : e.from_id \notin own /\ e.to_id \notin own},
      file_deps |-> {fd \in d.file_deps : fd.from_file \notin ids /\ keep(fd)}]

\* C34 as stated: reindex_file(f) leaves the File rows of all other files,
\* their Symbol and Ranking rows, every Edge with both endpoints outside f
\* and every FileDep whose source is another file as they were before the
\* call.
C34_ReindexTouchesOnlyItsFile ==
  (run.op = "reindex" /\ Ended) =>
    LET ids == FileIdsOf(run.pre, db, run.relPath)
        every(fd) == TRUE
    IN Outside(db, ids, every) = Outside(run.pre, ids, every)

\* C34, amended: reindex_file(f) leaves the File rows of all other files,
\* their Symbol and Ranking rows and every Edge with both endpoints outside
\* f as they were; it leaves every FileDep whose source is another file as
\* it was while f exists on disk, and when f is gone and its File row is
\* removed, every such FileDep but those that point to f.
C34_ReindexFrame ==
  (run.op = "reindex" /\ Ended) =>
    LET ids == FileIdsOf(run.pre, db, run.relPath)
        notInto(fd) == existsSync(disk, pathJoin(run.relPath)) \/ fd.to_file \notin ids
    IN Outside(db, ids, notInto) = Outside(run.pre, ids, notInto)

\* reindex_file has rebuilt an edited file that another file imports, beside
\* ranked symbols of that other file
C34_Witness ==
  /\ run.op = "reindex"
  /\ run.pc = "returned"
  /\ run.then = "insert"
  /\ \E fd \in db.file_deps : fd.to_file = run.fileId /\ fd.from_file # run.fileId
  /\ \E s \in db.symbols :
       /\ s.file_id # run.fileId
       /\ \E r \in db.rankings : r.symbol_id = s.id
  /\ \E e \in db.edges :
       \A s \in db.symbols : s.id \in {e.from_id, e.to_id} => s.file_id # run.fileId
  /\ db.symbols # run.pre.symbols

\* the call read a content whose digest is the one stored for its path
DigestUnchanged ==
  /\ run.op = "reindex"
  /\ run.content \notin {NoFile, Unreadable}
  /\ \E f \in FileByPath(run.pre, run.relPath) : f.content_hash = hashFile(run.content)

\* C35: reindex_file(f) on a file whose content digest equals the stored
\* digest changes no File, Symbol, Edge, FileDep, Ranking or FTS row, at
\* any statement of the call and whatever state f's rows are in.
C35_UnchangedReindexIsNoOp == DigestUnchanged => (db = run.pre /\ tx = run.pre)

\* such a call has returned on a file whose Symbol rows an earlier, failed
\* call had deleted and not rebuilt
C35_Witness ==
  /\ DigestUnchanged
  /\ run.pc = "returned"
  /\ SymbolsOfFile(db, run.fileId) = {}
  /\ Len(parseFile(run.relPath, run.content).symbols) > 0
  /\ db.symbols # {}

====
